---- MODULE Spec2Model ----
(***************************************************************************)
(* Model of the wikidated stream builder:                                  *)
(*   - WikidataRdfTriple equality and hashing (wikidata_rdf_converter.py), *)
(*   - the per-entity diff generator _iter_wikidated_revisions,            *)
(*   - the partition build _WikidatedEntityStreamsPartial.build with its   *)
(*     temporary archive and final rename, the readers, and the (not       *)
(*     implemented) merge stages of WikidatedDataset (wikidated_dataset.py)*)
(*   - the worker pool of WikidatedDataset.build with the per-worker JVM   *)
(*     manager and converter, and the progress calls of a partition build, *)
(*   - WikidataRdfConverter._prefix_ntriples_uri with the prefix table.    *)
(*                                                                         *)
(* Python strings are sequences of one-character strings, so that slicing  *)
(* (object_[:2]) and the code-point order used by sorted() are computed.   *)
(***************************************************************************)
EXTENDS Integers, Sequences, FiniteSets, TLC

VARIABLES
    \* --- WikidataRdfTriple.__eq__ / __hash__ applied to a pair of triples
    eqA, eqB, eqPc, eqResult, eqHashA, eqHashB,
    \* --- one run of _iter_wikidated_revisions over one entity's revisions
    dRevisions, dState, dOut,
    \* --- the dataset build over the partitions of a dump
    input, pc, pos, state, memberOpen, tmp, final, yielded, convCalls,
    stage, interrupted, mergeStatus, merged, globalStream, progress,
    \* --- the worker pool of WikidatedDataset.build and its JVM managers
    wState, wItem, wCalls, jvmManager, extraArguments, queue, constructed,
    acquiredBy, closedBy, usedBy, disk, pathWriters,
    \* --- one call of WikidataRdfConverter._prefix_ntriples_uri
    pUri, pPc, pResult

eqVars   == <<eqA, eqB, eqPc, eqResult, eqHashA, eqHashB>>
diffVars == <<dRevisions, dState, dOut>>
mainVars == <<input, pc, pos, state, memberOpen, tmp, final, yielded,
              convCalls, stage, interrupted, mergeStatus, merged,
              globalStream, progress>>
poolVars == <<wState, wItem, wCalls, jvmManager, extraArguments, queue,
              constructed, acquiredBy, closedBy, usedBy, disk, pathWriters>>
prefixVars == <<pUri, pPc, pResult>>
vars     == <<eqVars, diffVars, mainVars, poolVars, prefixVars>>

-----------------------------------------------------------------------------
(* Bounds of the model.                                                    *)

\* longest object string of a triple handed to __eq__ / __hash__
MaxObjLen == 3
\* most revisions of one entity fed to the diff generator
MaxDiffRevs == 3
\* most revisions in the whole dump (over all partitions) of the build
MaxRevs == 3
\* most worker processes of the pool (max_workers)
MaxWorkers == 2
\* most revisions of one partition in the worker pool
MaxPoolRevs == 2
\* longest local name after the namespace of a URI
MaxLocalLen == 2
\* largest page id of the page id ranges whose archive names are compared
MaxPageId == 11

-----------------------------------------------------------------------------
(* Python strings.                                                         *)

\* ord() of the characters the model uses
CharOrd(c) ==
    CASE c = "." -> 46
      [] c = "0" -> 48 [] c = "1" -> 49 [] c = "2" -> 50 [] c = "3" -> 51
      [] c = "4" -> 52 [] c = "5" -> 53 [] c = "6" -> 54 [] c = "7" -> 55
      [] c = "8" -> 56 [] c = "9" -> 57
      [] c = ":" -> 58
      [] c = "_" -> 95
      [] c = "a" -> 97 [] c = "b" -> 98
      [] c = "j" -> 106 [] c = "l" -> 108 [] c = "n" -> 110 [] c = "s" -> 115
      [] c = "o" -> 111

\* s[:n]
StrPrefix(s, n) == SubSeq(s, 1, IF Len(s) < n THEN Len(s) ELSE n)

\* str.__lt__: code-point lexicographic order
StrLt(a, b) ==
    \E k \in 1..((IF Len(a) < Len(b) THEN Len(a) ELSE Len(b)) + 1) :
        /\ \A j \in 1..(k - 1) : a[j] = b[j]
        /\ \/ k = Len(a) + 1 /\ k <= Len(b)
           \/ k <= Len(a) /\ k <= Len(b) /\ CharOrd(a[k]) < CharOrd(b[k])

\* all strings over the characters cs of length at most n
RECURSIVE StringsUpTo(_, _)
StringsUpTo(cs, n) ==
    IF n = 0 THEN {<<>>}
    ELSE LET shorter == StringsUpTo(cs, n - 1)
         IN  shorter \cup {Append(s, c) : s \in shorter, c \in cs}

-----------------------------------------------------------------------------
(* WikidataRdfTriple.                                                      *)

Triple(s, p, o) == [subject |-> s, predicate |-> p, object_ |-> o]

BlankMarker == <<"_", ":">>

\* self.object_[:2] == "_:"
IsBlankObject(o) == StrPrefix(o, 2) = BlankMarker

\* A bug a reimplementation could have: the blank-node branch is dropped.
TripleEqIgnoringBlank(a, b) ==
    /\ a.subject = b.subject
    /\ a.predicate = b.predicate
    /\ a.object_ = b.object_

\* A bug: only the left triple is asked whether its object is opaque.
TripleEqByLeftObject(a, b) ==
    IF IsBlankObject(a.object_)
    THEN a.subject = b.subject /\ a.predicate = b.predicate
    ELSE /\ a.subject = b.subject
         /\ a.predicate = b.predicate
         /\ a.object_ = b.object_

\* WikidataRdfTriple.__eq__ (other is always a WikidataRdfTriple here)
TripleEq(a, b) ==
    IF IsBlankObject(a.object_) /\ IsBlankObject(b.object_)
    THEN a.subject = b.subject /\ a.predicate = b.predicate
    ELSE /\ a.subject = b.subject
         /\ a.predicate = b.predicate
         /\ a.object_ = b.object_

\* A bug: the hash takes the opaque identifier in.
TripleHashWithObject(a) == <<a.subject, a.predicate, a.object_>>

\* WikidataRdfTriple.__hash__: the tuple handed to hash().  hash() is a
\* function of that tuple; it is kept symbolic (the tuple itself), which is
\* the finest hash there can be, so no equality of hashes is assumed that
\* Python does not guarantee.
TripleHash(a) ==
    IF IsBlankObject(a.object_)
    THEN <<a.subject, a.predicate, BlankMarker>>
    ELSE <<a.subject, a.predicate, a.object_>>

\* tuple.__lt__ on (subject, predicate, object_), used by sorted()
TripleLt(a, b) ==
    \/ StrLt(a.subject, b.subject)
    \/ /\ a.subject = b.subject
       /\ \/ StrLt(a.predicate, b.predicate)
          \/ a.predicate = b.predicate /\ StrLt(a.object_, b.object_)

-----------------------------------------------------------------------------
(* Python sets of triples: a set of stored elements, no two of them equal  *)
(* under __eq__.                                                           *)

\* x in s: a stored element with the same hash that compares equal
SetContains(s, x) ==
    \E y \in s : TripleHash(y) = TripleHash(x) /\ TripleEq(y, x)

\* set(iterable): elements are added in order, an element equal to a stored
\* one is dropped
RECURSIVE SetAddAll(_, _)
SetAddAll(s, seq) ==
    IF seq = <<>> THEN s
    ELSE SetAddAll(IF SetContains(s, Head(seq)) THEN s ELSE s \cup {Head(seq)},
                   Tail(seq))

PySet(seq) == SetAddAll({}, seq)

\* A bug: the difference compares the triples field by field.
SetDifferenceByFields(s, t) == s \ t

\* s - t
SetDifference(s, t) == {x \in s : ~SetContains(t, x)}

\* s | t: the elements of s, then those of t not equal to a stored one
RECURSIVE SetUnionInto(_, _)
SetUnionInto(s, t) ==
    IF t = {} THEN s
    ELSE LET x == CHOOSE y \in t : TRUE
         IN  SetUnionInto(IF SetContains(s, x) THEN s ELSE s \cup {x}, t \ {x})

\* s == t on sets
SetEquals(s, t) ==
    /\ Cardinality(s) = Cardinality(t)
    /\ \A x \in s : SetContains(t, x)

\* A bug: the largest triple comes first.
RECURSIVE SortedDescending(_)
SortedDescending(s) ==
    IF s = {} THEN <<>>
    ELSE LET m == CHOOSE x \in s : \A y \in s \ {x} : TripleLt(y, x)
         IN  <<m>> \o SortedDescending(s \ {m})

\* sorted(s): ascending in tuple order
RECURSIVE Sorted(_)
Sorted(s) ==
    IF s = {} THEN <<>>
    ELSE LET m == CHOOSE x \in s : \A y \in s \ {x} : TripleLt(x, y)
         IN  <<m>> \o Sorted(s \ {m})

SeqToSet(seq) == {seq[i] : i \in 1..Len(seq)}

-----------------------------------------------------------------------------
(* Specification SpecEq: __eq__ and __hash__ on every pair of triples.     *)

EqStrings == {<<"a">>, <<"b">>}
EqObjects == StringsUpTo({"_", ":", "a"}, MaxObjLen)
EqTriples == {Triple(s, p, o) : s \in EqStrings, p \in EqStrings, o \in EqObjects}

NoTriple == Triple(<<>>, <<>>, <<>>)

EqIdle ==
    /\ eqA = NoTriple /\ eqB = NoTriple /\ eqPc = "idle"
    /\ eqResult = FALSE /\ eqHashA = <<>> /\ eqHashB = <<>>

EqInit ==
    /\ eqA \in EqTriples /\ eqB \in EqTriples /\ eqPc = "input"
    /\ eqResult = FALSE /\ eqHashA = <<>> /\ eqHashB = <<>>

\* a == b, hash(a), hash(b)
Compare ==
    /\ eqPc = "input"
    /\ eqResult' = TripleEq(eqA, eqB)
    /\ eqHashA' = TripleHash(eqA)
    /\ eqHashB' = TripleHash(eqB)
    /\ eqPc' = "compared"
    /\ UNCHANGED <<eqA, eqB>>
    /\ UNCHANGED <<diffVars, mainVars, poolVars, prefixVars>>

-----------------------------------------------------------------------------
(* Revisions and the converter.                                            *)
(* The RDF converter is an external collaborator: calling it on a raw      *)
(* revision either raises WikidataRdfConversionError or returns the        *)
(* sequence of triples of the revision.  A raw revision carries the        *)
(* outcome its conversion will have.                                       *)

ConversionError == [ok |-> FALSE, triples |-> <<>>]
Converted(ts)   == [ok |-> TRUE, triples |-> ts]

RawRevision(page, rid, ts, conv) ==
    [page_id |-> page, revision_id |-> rid, timestamp |-> ts, conv |-> conv]

\* A bug: the revision yielded does not say which revision it belongs to.
WikidatedRevisionOfEntity(revision, deletions, additions) ==
    [page_id |-> revision.page_id,
     revision_id |-> 0,
     timestamp |-> 0,
     triple_deletions |-> deletions,
     triple_additions |-> additions]

\* WikidatedRevision(entity=..., revision=..., triple_deletions=...,
\*                   triple_additions=...)
WikidatedRevision(revision, deletions, additions) ==
    [page_id |-> revision.page_id,
     revision_id |-> revision.revision_id,
     timestamp |-> revision.timestamp,
     triple_deletions |-> deletions,
     triple_additions |-> additions]

\* the triples the model's revisions are made of; TN1 and TN2 differ only in
\* the identifier of a blank node in object position
TA  == Triple(<<"a">>, <<"a">>, <<"a">>)
TB  == Triple(<<"a">>, <<"b">>, <<"a">>)
TN1 == Triple(<<"a">>, <<"a">>, <<"_", ":", "a">>)
TN2 == Triple(<<"a">>, <<"a">>, <<"_", ":", "b">>)

DiffUniverse == {TA, TB, TN1, TN2}

\* the triple lists a conversion can return in the diff specification
ConvOutputs == {Sorted(s) : s \in SUBSET DiffUniverse}

-----------------------------------------------------------------------------
(* _WikidatedEntityStreamsPartial._iter_wikidated_revisions                *)

\* triples_set = set(rdf_revision.triples)
TriplesSet(conv) == PySet(conv.triples)

\* triple_deletions = sorted(state - triples_set)
TripleDeletions(st, triples_set) == Sorted(SetDifference(st, triples_set))

\* A bug: the operands of the difference are swapped.
TripleAdditionsSwapped(st, triples_set) == Sorted(SetDifference(st, triples_set))

\* triple_additions = sorted(triples_set - state)
TripleAdditions(st, triples_set) == Sorted(SetDifference(triples_set, st))

\* A bug: the new triples are merged into the state instead of replacing it.
NextStateAccumulating(st, triples_set) == SetUnionInto(st, triples_set)

\* state = triples_set
NextState(st, triples_set) == triples_set

\* A bug: a failed conversion resets the running state.
StateAfterConversionErrorReset(st) == {}

\* except WikidataRdfConversionError: ... continue   (state is not touched)
StateAfterConversionError(st) == st

\* one iteration of "for revision in revisions": the state afterwards and
\* what is yielded (nothing, or one WikidatedRevision)
IterStep(st, revision) ==
    IF ~revision.conv.ok
    THEN [state |-> StateAfterConversionError(st), emitted |-> <<>>]
    ELSE LET triples_set == TriplesSet(revision.conv)
         IN  [state |-> NextState(st, triples_set),
              emitted |-> <<WikidatedRevision(revision,
                                TripleDeletions(st, triples_set),
                                TripleAdditions(st, triples_set))>>]

\* the whole generator run over a finite revision sequence, from state st
RECURSIVE IterFrom(_, _)
IterFrom(st, revisions) ==
    IF revisions = <<>> THEN [state |-> st, emitted |-> <<>>]
    ELSE LET step == IterStep(st, Head(revisions))
             rest == IterFrom(step.state, Tail(revisions))
         IN  [state |-> rest.state, emitted |-> step.emitted \o rest.emitted]

\* state: MutableSet[WikidataRdfTriple] = set()
InitialState == {}

IterWikidatedRevisions(revisions) == IterFrom(InitialState, revisions)

-----------------------------------------------------------------------------
(* Specification SpecDiff: the generator run on one entity, the revisions  *)
(* arriving one at a time from the revision iterator.                      *)

DiffIdle == dRevisions = <<>> /\ dState = {} /\ dOut = <<>>

DiffInit == dRevisions = <<>> /\ dState = InitialState /\ dOut = <<>>

NextDiffRevision(conv) ==
    RawRevision(0, Len(dRevisions) + 1, Len(dRevisions) + 1, conv)

\* the iterator hands over a revision that converts to the triples ts
DiffConverted(ts) ==
    /\ Len(dRevisions) < MaxDiffRevs
    /\ LET revision == NextDiffRevision(Converted(ts))
           step == IterStep(dState, revision)
       IN  /\ dRevisions' = Append(dRevisions, revision)
           /\ dState' = step.state
           /\ dOut' = dOut \o step.emitted
    /\ UNCHANGED <<eqVars, mainVars, poolVars, prefixVars>>

\* the iterator hands over a revision whose conversion raises
DiffConversionError ==
    /\ Len(dRevisions) < MaxDiffRevs
    /\ LET revision == NextDiffRevision(ConversionError)
           step == IterStep(dState, revision)
       IN  /\ dRevisions' = Append(dRevisions, revision)
           /\ dState' = step.state
           /\ dOut' = dOut \o step.emitted
    /\ UNCHANGED <<eqVars, mainVars, poolVars, prefixVars>>

-----------------------------------------------------------------------------
(* The dump: its pages-meta-history files (partitions) and their page id   *)
(* ranges.  WikidatedDataset.__init__ creates one                          *)
(* _WikidatedEntityStreamsPartial per file.                                *)

Partitions == {1, 2}

\* pages_meta_history.page_id_range of partition p: range(start, stop)
PageIdRange(p) == [start |-> 2 * (p - 1), stop |-> 2 * p]

RangePages(r) == r.start..(r.stop - 1)

\* the triples revision number i of a file converts to, when it converts:
\* consecutive revisions differ in one plain triple and one blank node
RevisionTriples(i) == IF i % 2 = 1 THEN <<TA, TB>> ELSE <<TN1, TB>>

\* the revision sequences of length n that partition p's file can hold;
\* revision ids are unique over the dump, timestamps follow the file order
RevisionSeqs(p, n) ==
    {[i \in 1..n |->
        RawRevision(pages[i], 2 * (i - 1) + p, i,
                    IF fails[i] THEN ConversionError
                    ELSE Converted(RevisionTriples(i)))] :
            pages \in [1..n -> RangePages(PageIdRange(p))],
            fails \in [1..n -> BOOLEAN]}

\* every dump of at most MaxRevs revisions
Dumps ==
    UNION {{<<a, b>> : a \in RevisionSeqs(1, n[1]), b \in RevisionSeqs(2, n[2])} :
            n \in {m \in (0..MaxRevs) \X (0..MaxRevs) : m[1] + m[2] <= MaxRevs}}

-----------------------------------------------------------------------------
(* Archive files.  SevenZipArchive is a handle on a path; the container    *)
(* holds members keyed by file name, each a sequence of lines.             *)

EmptyMembers == [n \in {} |-> <<>>]
NoFile == [exists |-> FALSE, members |-> EmptyMembers]

\* entity_streams_archive.write(file_name): the member file_name is created
\* (the container too, when it is not there yet), replacing a member of that
\* name
OpenMember(file, name) ==
    [exists |-> TRUE,
     members |-> [n \in DOMAIN file.members \cup {name} |->
                    IF n = name THEN <<>> ELSE file.members[n]]]

\* fd.write(line) on the open member
WriteLine(file, name, line) ==
    [file EXCEPT !.members[name] = Append(@, line)]

\* entity_streams_archive.iter_file_names()
IterFileNames(file) == DOMAIN file.members

\* entity_streams_archive.read(file_name): the lines of the member; fails
\* when the archive has no member of that name
ReadMember(file, name) ==
    IF file.exists /\ name \in DOMAIN file.members
    THEN [ok |-> TRUE, lines |-> file.members[name]]
    ELSE [ok |-> FALSE, lines |-> <<>>]

\* wikidated_revision.json() + "\n": the line written for a revision.  The
\* text is kept symbolic, as the revision it is the text of: one line per
\* revision, the same line for the same revision.
Serialize(revision) == [line |-> revision]

-----------------------------------------------------------------------------
(* WikidatedEntityStreams: member names and readers.                       *)

Digits == <<"0", "1", "2", "3", "4", "5", "6", "7", "8", "9">>

\* str(n) for n >= 0
RECURSIVE IntToStr(_)
IntToStr(n) ==
    IF n < 10 THEN <<Digits[n + 1]>>
    ELSE IntToStr(n \div 10) \o <<Digits[(n % 10) + 1]>>

\* int(s) for a string of decimal digits
RECURSIVE StrToInt(_)
StrToInt(s) ==
    IF s = <<>> THEN 0
    ELSE 10 * StrToInt(SubSeq(s, 1, Len(s) - 1))
         + (CHOOSE d \in 0..9 : Digits[d + 1] = s[Len(s)])

JsonlSuffix == <<".", "j", "s", "o", "n", "l">>

\* Path(f"{entity_page_id}.jsonl")
EntityFileNameFromPageId(page_id) == IntToStr(page_id) \o JsonlSuffix

\* int(entity_file_name.name[: -len(".jsonl")])
EntityPageIdFromFileName(name) ==
    StrToInt(SubSeq(name, 1, Len(name) - Len(JsonlSuffix)))

\* WikidatedEntityStreams.iter_page_ids: the page ids it yields (the order is
\* the archive's own); fails its assertion when the archive does not exist
IterPageIds(file) ==
    IF ~file.exists THEN [ok |-> FALSE, page_ids |-> {}]
    ELSE [ok |-> TRUE,
          page_ids |-> {EntityPageIdFromFileName(n) : n \in IterFileNames(file)}]

-----------------------------------------------------------------------------
(* Paths of the partition archives and progress reports.                   *)

\* dataset_dir.name: "wikidated-custom-" and the version of the dump
DatasetDirName ==
    <<"w", "i", "k", "i", "d", "a", "t", "e", "d", "-", "c", "u", "s", "t", "o", "m", "-", "v">>

EntityStreamsInfix == <<"-", "e", "n", "t", "i", "t", "y", "-", "s", "t", "r", "e", "a", "m", "s">>

SevenZipSuffix == <<".", "7", "z">>

TmpPrefix == <<"t", "m", "p", ".">>

\* len(range(start, stop))
RangeLen(r) == IF r.stop > r.start THEN r.stop - r.start ELSE 0

\* A bug: the file name does not tell the partitions apart.
PartialFileNameWithoutRange(r) ==
    DatasetDirName \o EntityStreamsInfix \o SevenZipSuffix

\* _WikidatedEntityStreamsPartial.__init__: the name of the archive of the
\* partition with page id range r,
\* f"{dataset_dir.name}-entity-streams-p{r.start}-p{r.stop-1}.7z"
PartialFileName(r) ==
    DatasetDirName \o EntityStreamsInfix
        \o <<"-", "p">> \o IntToStr(r.start)
        \o <<"-", "p">> \o IntToStr(r.stop - 1) \o SevenZipSuffix

\* self._path of partition p (all archives lie in dataset_dir)
FinalPath(p) == PartialFileName(PageIdRange(p))

\* tmp_path = self._path.parent / ("tmp." + self._path.name)
TmpPath(p) == TmpPrefix \o FinalPath(p)

\* update_progress(name, items_done, len(page_id_range))
ProgressCall(p, items_done) ==
    [name |-> FinalPath(p), items_done |-> items_done,
     items_total |-> RangeLen(PageIdRange(p))]

\* update_progress(name, 0, len(page_id_range)) before the build is iterated
ProgressFirst(p) == ProgressCall(p, 0)

\* A bug: the number of the revision is reported instead of the page.
ProgressOfRevisionCount(p, revision) ==
    ProgressCall(p, revision.revision_id)

\* A bug: the pages of the range are counted from one.
ProgressOfRevisionFromOne(p, revision) ==
    ProgressCall(p, revision.page_id - PageIdRange(p).start + 1)

\* update_progress(name, revision.entity.page_id - page_id_range.start, ...)
ProgressOfRevision(p, revision) ==
    ProgressCall(p, revision.page_id - PageIdRange(p).start)

\* update_progress(name, len(page_id_range), len(page_id_range)) at the end
ProgressLast(p) == ProgressCall(p, RangeLen(PageIdRange(p)))

\* the calls made for the revisions a step of the build yielded
ProgressOfYielded(p, emitted) ==
    [i \in 1..Len(emitted) |-> ProgressOfRevision(p, emitted[i])]

-----------------------------------------------------------------------------
(* _WikidatedEntityStreamsPartial.build                                    *)

\* A bug: the existence check is missing.
PathExistsNever(p) == FALSE

\* A bug: the check looks at the temporary path.
PathExistsTmp(p) == tmp[p].exists

\* if self._path.exists(): ... return iter([])
PathExists(p) == final[p].exists

\* A bug: every revision is taken as a group of its own.
StartsGroupEveryRevision(revisions, i) == TRUE

\* groupby(..., lambda revision: revision.entity): revision i starts a new
\* group when it is the first or its entity differs from its predecessor's
StartsGroup(revisions, i) ==
    i = 1 \/ revisions[i - 1].page_id # revisions[i].page_id

\* A bug: the entity's file is opened before a first revision is there.
OpensEntityFileAlways(open, emits) == ~open

\* if first_wikidated_revision is not None: with archive.write(...) as fd
OpensEntityFile(open, emits) == emits /\ ~open

\* The build of a partition between two revisions: the diff generator's
\* state, whether the current entity's member is open, the temporary
\* archive, and what was yielded.  StartBuild is that before the first.
StartBuild(archive) ==
    [state |-> InitialState, memberOpen |-> FALSE, archive |-> archive,
     yielded |-> <<>>]

\* A bug: one diff state for the whole partition.
GroupStateCarried(fresh, st) == st

\* self._iter_wikidated_revisions(revisions, rdf_converter) is called once
\* per entity group and starts with state = set(): the state a revision is
\* diffed against, given the state st left by the revision before
GroupState(fresh, st) == IF fresh THEN InitialState ELSE st

\* one revision pulled from the grouped iterator, converted, written, yielded
ConsumeRevision(b, revisions, i) ==
    LET revision == revisions[i]
        fresh    == StartsGroup(revisions, i)
        st0      == GroupState(fresh, b.state)
        open0    == IF fresh THEN FALSE ELSE b.memberOpen
        step     == IterStep(st0, revision)
        emits    == step.emitted # <<>>
        name     == EntityFileNameFromPageId(revision.page_id)
        opens    == OpensEntityFile(open0, emits)
        archive1 == IF opens THEN OpenMember(b.archive, name) ELSE b.archive
        archive2 == IF emits
                    THEN WriteLine(archive1, name, Serialize(step.emitted[1]))
                    ELSE archive1
    IN  [state |-> step.state,
         memberOpen |-> open0 \/ opens,
         archive |-> archive2,
         yielded |-> b.yielded \o step.emitted]

\* A bug: the rename is taken as soon as something was written.
AllConsumedEarly(p) == pos[p] >= 1

\* the for loop over the entity groups has ended
AllConsumed(p) == pos[p] = Len(input[p])

\* the build of a partition run to its end with nothing on disk before it
RECURSIVE BuildFrom(_, _, _)
BuildFrom(b, revisions, i) ==
    IF i > Len(revisions) THEN b
    ELSE BuildFrom(ConsumeRevision(b, revisions, i), revisions, i + 1)

UninterruptedBuild(revisions) == BuildFrom(StartBuild(NoFile), revisions, 1)

-----------------------------------------------------------------------------
(* Specification Spec: WikidatedDataset.build over the partitions, process *)
(* kills, and the readers.                                                 *)
(*   stage        "idle": no build call is running; "partials": the call   *)
(*                is in its parallelize loop                               *)
(*   pc[p]        where the build of partition p stands in the current (or *)
(*                last) call: "idle", "pending", "running", "done",        *)
(*                "skipped", "raised"                                      *)
(*   pos[p]       revisions of p pulled from the dump so far               *)
(*   state[p], memberOpen[p]   the diff state and whether the current      *)
(*                entity's member was opened                               *)
(*   tmp[p], final[p]   the files at tmp_path and at self._path            *)
(*   yielded[p], convCalls[p]   what the build call yielded so far and how *)
(*                often it called the converter                            *)
(*   interrupted[p]   history: a build of p was killed before its rename   *)
(*   progress[p]  the update_progress calls made for p in the current (or  *)
(*                last) call                                               *)

NotCalled == [status |-> "not_called", revisions |-> <<>>]

\* the local variables of the build calls before their first step
FreshLocals(pos0, state0, memberOpen0, yielded0, convCalls0) ==
    /\ pos0 = [p \in Partitions |-> 0]
    /\ state0 = [p \in Partitions |-> InitialState]
    /\ memberOpen0 = [p \in Partitions |-> FALSE]
    /\ yielded0 = [p \in Partitions |-> <<>>]
    /\ convCalls0 = [p \in Partitions |-> 0]

MainStart ==
    /\ stage = "idle"
    /\ pc = [p \in Partitions |-> "idle"]
    /\ FreshLocals(pos, state, memberOpen, yielded, convCalls)
    /\ tmp = [p \in Partitions |-> NoFile]
    /\ final = [p \in Partitions |-> NoFile]
    /\ interrupted = [p \in Partitions |-> FALSE]
    /\ mergeStatus = "not_called"
    /\ merged = NoFile
    /\ globalStream = NotCalled
    /\ progress = [p \in Partitions |-> <<>>]

MainIdle == input = <<<<>>, <<>>>> /\ MainStart

MainInit == input \in Dumps /\ MainStart

\* WikidatedDataset.build(entity_streams=True) is called: every partition is
\* handed to parallelize.  mergeStatus and globalStream hold the outcome of
\* the merge of the last build call and of the last global read after it.
DatasetBuild ==
    /\ stage = "idle"
    /\ stage' = "partials"
    /\ pc' = [p \in Partitions |-> "pending"]
    /\ FreshLocals(pos', state', memberOpen', yielded', convCalls')
    /\ mergeStatus' = "not_called"
    /\ globalStream' = NotCalled
    /\ progress' = [p \in Partitions |-> <<>>]
    /\ UNCHANGED <<input, tmp, final, interrupted, merged>>
    /\ UNCHANGED <<eqVars, diffVars, poolVars, prefixVars>>

\* _build_entity_streams_partial is called for partition p: the first
\* progress call, then build() up to its first revision: the existence check.
\* When the archive exists the build yields nothing and the last progress
\* call follows at once.
BuildStart(p) ==
    /\ stage = "partials"
    /\ pc[p] = "pending"
    /\ pc' = [pc EXCEPT ![p] = IF PathExists(p) THEN "skipped" ELSE "running"]
    /\ progress' = [progress EXCEPT ![p] =
                        IF PathExists(p)
                        THEN <<ProgressFirst(p), ProgressLast(p)>>
                        ELSE <<ProgressFirst(p)>>]
    /\ UNCHANGED <<input, pos, state, memberOpen, tmp, final, yielded,
                   convCalls, stage, interrupted, mergeStatus, merged,
                   globalStream>>
    /\ UNCHANGED <<eqVars, diffVars, poolVars, prefixVars>>

\* the next revision of p is converted and, when that works, written to the
\* temporary archive and yielded
ConvertRevision(p) ==
    /\ pc[p] = "running"
    /\ pos[p] < Len(input[p])
    /\ LET b == ConsumeRevision([state |-> state[p],
                                 memberOpen |-> memberOpen[p],
                                 archive |-> tmp[p],
                                 yielded |-> yielded[p]],
                                input[p], pos[p] + 1)
       IN  /\ state' = [state EXCEPT ![p] = b.state]
           /\ memberOpen' = [memberOpen EXCEPT ![p] = b.memberOpen]
           /\ tmp' = [tmp EXCEPT ![p] = b.archive]
           /\ yielded' = [yielded EXCEPT ![p] = b.yielded]
           /\ progress' = [progress EXCEPT ![p] =
                 @ \o ProgressOfYielded(p,
                        SubSeq(b.yielded, Len(yielded[p]) + 1, Len(b.yielded)))]
    /\ pos' = [pos EXCEPT ![p] = @ + 1]
    /\ convCalls' = [convCalls EXCEPT ![p] = @ + 1]
    /\ UNCHANGED <<input, pc, final, stage, interrupted, mergeStatus, merged,
                   globalStream>>
    /\ UNCHANGED <<eqVars, diffVars, poolVars, prefixVars>>

\* tmp_path.rename(self._path); FileNotFoundError when nothing was written.
\* After the rename the build is exhausted and the last progress call is
\* made.
Rename(p) ==
    /\ pc[p] = "running"
    /\ AllConsumed(p)
    /\ IF tmp[p].exists
       THEN /\ final' = [final EXCEPT ![p] = tmp[p]]
            /\ tmp' = [tmp EXCEPT ![p] = NoFile]
            /\ pc' = [pc EXCEPT ![p] = "done"]
            /\ progress' = [progress EXCEPT ![p] = Append(@, ProgressLast(p))]
       ELSE /\ pc' = [pc EXCEPT ![p] = "raised"]
            /\ UNCHANGED <<tmp, final, progress>>
    /\ UNCHANGED <<input, pos, state, memberOpen, yielded, convCalls, stage,
                   interrupted, mergeStatus, merged, globalStream>>
    /\ UNCHANGED <<eqVars, diffVars, poolVars, prefixVars>>

\* the reason the model's WikidataRdfConversionError carries
ConversionErrorReason == "RDF serialization by Wikidata Toolkit failed."

\* The conversion failures a build call has counted when it returns: the
\* generator only logs the exception ("RDF conversion error.") and
\* _build_entity_streams_partial counts neither revisions nor exceptions
\* ("TODO: count number of processed revisions and exceptions?"), so there
\* is no counter: as a Counter, the empty one.
BuildFailureCounter == [reason \in {} |-> 0]

\* Counter.__getitem__: the count of a key, 0 for a key that is not there
CounterGet(counter, key) ==
    IF key \in DOMAIN counter THEN counter[key] ELSE 0

\* A bug: the archive is committed when the build is left by an exception.
FinalAfterRaiseCommitted(p) == tmp[p]

\* what is at self._path when an exception leaves build(): the rename is
\* the last statement and in no finally block, so what was there before
FinalAfterRaise(p) == final[p]

\* the next revision of p is pulled and rdf_converter(revision) raises an
\* exception that is no WikidataRdfConversionError: only that class is
\* caught, so the exception leaves build() and
\* _build_entity_streams_partial; the temporary archive stays as it is.
\* When the revision is the first of its group, the member of the entity
\* before was closed and a new generator with state = set() made the call.
RaiseInBuild(p) ==
    /\ pc[p] = "running"
    /\ pos[p] < Len(input[p])
    /\ LET fresh == StartsGroup(input[p], pos[p] + 1)
       IN  /\ state' = [state EXCEPT ![p] = GroupState(fresh, @)]
           /\ memberOpen' = [memberOpen EXCEPT ![p] = IF fresh THEN FALSE ELSE @]
    /\ pos' = [pos EXCEPT ![p] = @ + 1]
    /\ convCalls' = [convCalls EXCEPT ![p] = @ + 1]
    /\ pc' = [pc EXCEPT ![p] = "raised"]
    /\ final' = [final EXCEPT ![p] = FinalAfterRaise(p)]
    /\ UNCHANGED <<input, tmp, yielded, stage, interrupted, mergeStatus,
                   merged, globalStream, progress>>
    /\ UNCHANGED <<eqVars, diffVars, poolVars, prefixVars>>

\* A bug: the merge does not wait for the partitions.
PartialsExhaustedEarly == \E p \in Partitions : pc[p] \in {"done", "skipped"}

\* the loop over parallelize(...) has ended: every partition's build was
\* iterated to its end, and none raised
PartialsExhausted == \A p \in Partitions : pc[p] \in {"done", "skipped"}

\* self._entity_streams_merged.build(), the statement after the loop over
\* the partitions: raise NotImplementedError()
MergedBuild ==
    /\ stage = "partials"
    /\ PartialsExhausted
    /\ mergeStatus' = "NotImplementedError"
    /\ stage' = "idle"
    /\ UNCHANGED <<input, pc, pos, state, memberOpen, tmp, final, yielded,
                   convCalls, interrupted, merged, globalStream, progress>>
    /\ UNCHANGED <<eqVars, diffVars, poolVars, prefixVars>>

\* reraise_exceptions=True: the exception of a partition ends the build call
Reraise ==
    /\ stage = "partials"
    /\ \E p \in Partitions : pc[p] = "raised"
    /\ \A p \in Partitions : pc[p] \notin {"pending", "running"}
    /\ stage' = "idle"
    /\ UNCHANGED <<input, pc, pos, state, memberOpen, tmp, final, yielded,
                   convCalls, interrupted, mergeStatus, merged, globalStream,
                   progress>>
    /\ UNCHANGED <<eqVars, diffVars, poolVars, prefixVars>>

\* the process is killed during the build: what is on disk stays
Interrupt ==
    /\ stage = "partials"
    /\ stage' = "idle"
    /\ interrupted' = [p \in Partitions |-> interrupted[p] \/ pc[p] = "running"]
    /\ pc' = [p \in Partitions |-> "idle"]
    /\ FreshLocals(pos', state', memberOpen', yielded', convCalls')
    /\ progress' = [p \in Partitions |-> <<>>]
    /\ UNCHANGED <<input, tmp, final, mergeStatus, merged, globalStream>>
    /\ UNCHANGED <<eqVars, diffVars, poolVars, prefixVars>>

\* WikidatedDataset.iter_revisions(None), called between builds:
\* _global_stream_merged.iter_revisions() raises NotImplementedError
IterRevisionsGlobal ==
    /\ stage = "idle"
    /\ globalStream = NotCalled
    /\ globalStream' = [status |-> "NotImplementedError", revisions |-> <<>>]
    /\ UNCHANGED <<input, pc, pos, state, memberOpen, tmp, final, yielded,
                   convCalls, stage, interrupted, mergeStatus, merged,
                   progress>>
    /\ UNCHANGED <<eqVars, diffVars, poolVars, prefixVars>>

-----------------------------------------------------------------------------
(* Specification SpecPrefix: WikidataRdfConverter._prefix_ntriples_uri     *)
(* applied to one term of an N-Triples line.                               *)

\* the dict WIKIDATA_RDF_PREFIXES, in the order of the source
WIKIDATA_RDF_PREFIXES == <<
    [uri |->
       <<"h", "t", "t", "p", ":", "/", "/", "c", "r", "e", "a", "t", "i",
         "v", "e", "c", "o", "m", "m", "o", "n", "s", ".", "o", "r", "g",
         "/", "n", "s", "#">>,
     prefix |-> <<"c", "c">>],
    [uri |->
       <<"h", "t", "t", "p", ":", "/", "/", "p", "u", "r", "l", ".", "o",
         "r", "g", "/", "d", "c", "/", "t", "e", "r", "m", "s", "/">>,
     prefix |-> <<"d", "c", "t">>],
    [uri |->
       <<"h", "t", "t", "p", ":", "/", "/", "s", "c", "h", "e", "m", "a",
         ".", "o", "r", "g", "/">>,
     prefix |-> <<"s", "c", "h", "e", "m", "a">>],
    [uri |->
       <<"h", "t", "t", "p", ":", "/", "/", "w", "i", "k", "i", "b", "a",
         ".", "s", "e", "/", "o", "n", "t", "o", "l", "o", "g", "y", "#">>,
     prefix |-> <<"w", "i", "k", "i", "b", "a", "s", "e">>],
    [uri |->
       <<"h", "t", "t", "p", ":", "/", "/", "w", "w", "w", ".", "b", "i",
         "g", "d", "a", "t", "a", ".", "c", "o", "m", "/", "q", "u", "e",
         "r", "y", "H", "i", "n", "t", "s", "#">>,
     prefix |-> <<"h", "i", "n", "t">>],
    [uri |->
       <<"h", "t", "t", "p", ":", "/", "/", "w", "w", "w", ".", "b", "i",
         "g", "d", "a", "t", "a", ".", "c", "o", "m", "/", "r", "d", "f",
         "#">>,
     prefix |-> <<"b", "d">>],
    [uri |->
       <<"h", "t", "t", "p", ":", "/", "/", "w", "w", "w", ".", "o", "p",
         "e", "n", "g", "i", "s", ".", "n", "e", "t", "/", "o", "n", "t",
         "/", "g", "e", "o", "s", "p", "a", "r", "q", "l", "#">>,
     prefix |-> <<"g", "e", "o">>],
    [uri |->
       <<"h", "t", "t", "p", ":", "/", "/", "w", "w", "w", ".", "w", "3",
         ".", "o", "r", "g", "/", "1", "9", "9", "9", "/", "0", "2", "/",
         "2", "2", "-", "r", "d", "f", "-", "s", "y", "n", "t", "a", "x",
         "-", "n", "s", "#">>,
     prefix |-> <<"r", "d", "f">>],
    [uri |->
       <<"h", "t", "t", "p", ":", "/", "/", "w", "w", "w", ".", "w", "3",
         ".", "o", "r", "g", "/", "2", "0", "0", "0", "/", "0", "1", "/",
         "r", "d", "f", "-", "s", "c", "h", "e", "m", "a", "#">>,
     prefix |-> <<"r", "d", "f", "s">>],
    [uri |->
       <<"h", "t", "t", "p", ":", "/", "/", "w", "w", "w", ".", "w", "3",
         ".", "o", "r", "g", "/", "2", "0", "0", "1", "/", "X", "M", "L",
         "S", "c", "h", "e", "m", "a", "#">>,
     prefix |-> <<"x", "s", "d">>],
    [uri |->
       <<"h", "t", "t", "p", ":", "/", "/", "w", "w", "w", ".", "w", "3",
         ".", "o", "r", "g", "/", "2", "0", "0", "2", "/", "0", "7", "/",
         "o", "w", "l", "#">>,
     prefix |-> <<"o", "w", "l">>],
    [uri |->
       <<"h", "t", "t", "p", ":", "/", "/", "w", "w", "w", ".", "w", "3",
         ".", "o", "r", "g", "/", "2", "0", "0", "4", "/", "0", "2", "/",
         "s", "k", "o", "s", "/", "c", "o", "r", "e", "#">>,
     prefix |-> <<"s", "k", "o", "s">>],
    [uri |->
       <<"h", "t", "t", "p", ":", "/", "/", "w", "w", "w", ".", "w", "3",
         ".", "o", "r", "g", "/", "n", "s", "/", "l", "e", "m", "o", "n",
         "/", "o", "n", "t", "o", "l", "e", "x", "#">>,
     prefix |-> <<"o", "n", "t", "o", "l", "e", "x">>],
    [uri |->
       <<"h", "t", "t", "p", ":", "/", "/", "w", "w", "w", ".", "w", "3",
         ".", "o", "r", "g", "/", "n", "s", "/", "p", "r", "o", "v", "#">>,
     prefix |-> <<"p", "r", "o", "v">>],
    [uri |->
       <<"h", "t", "t", "p", ":", "/", "/", "w", "w", "w", ".", "w", "i",
         "k", "i", "d", "a", "t", "a", ".", "o", "r", "g", "/", "e", "n",
         "t", "i", "t", "y", "/">>,
     prefix |-> <<"w", "d">>],
    [uri |->
       <<"h", "t", "t", "p", ":", "/", "/", "w", "w", "w", ".", "w", "i",
         "k", "i", "d", "a", "t", "a", ".", "o", "r", "g", "/", "e", "n",
         "t", "i", "t", "y", "/", "s", "t", "a", "t", "e", "m", "e", "n",
         "t", "/">>,
     prefix |-> <<"w", "d", "s">>],
    [uri |->
       <<"h", "t", "t", "p", ":", "/", "/", "w", "w", "w", ".", "w", "i",
         "k", "i", "d", "a", "t", "a", ".", "o", "r", "g", "/", "p", "r",
         "o", "p", "/">>,
     prefix |-> <<"p">>],
    [uri |->
       <<"h", "t", "t", "p", ":", "/", "/", "w", "w", "w", ".", "w", "i",
         "k", "i", "d", "a", "t", "a", ".", "o", "r", "g", "/", "p", "r",
         "o", "p", "/", "d", "i", "r", "e", "c", "t", "-", "n", "o", "r",
         "m", "a", "l", "i", "z", "e", "d", "/">>,
     prefix |-> <<"w", "d", "t", "n">>],
    [uri |->
       <<"h", "t", "t", "p", ":", "/", "/", "w", "w", "w", ".", "w", "i",
         "k", "i", "d", "a", "t", "a", ".", "o", "r", "g", "/", "p", "r",
         "o", "p", "/", "d", "i", "r", "e", "c", "t", "/">>,
     prefix |-> <<"w", "d", "t">>],
    [uri |->
       <<"h", "t", "t", "p", ":", "/", "/", "w", "w", "w", ".", "w", "i",
         "k", "i", "d", "a", "t", "a", ".", "o", "r", "g", "/", "p", "r",
         "o", "p", "/", "n", "o", "v", "a", "l", "u", "e", "/">>,
     prefix |-> <<"w", "d", "n", "o">>],
    [uri |->
       <<"h", "t", "t", "p", ":", "/", "/", "w", "w", "w", ".", "w", "i",
         "k", "i", "d", "a", "t", "a", ".", "o", "r", "g", "/", "p", "r",
         "o", "p", "/", "q", "u", "a", "l", "i", "f", "i", "e", "r", "/">>,
     prefix |-> <<"p", "q">>],
    [uri |->
       <<"h", "t", "t", "p", ":", "/", "/", "w", "w", "w", ".", "w", "i",
         "k", "i", "d", "a", "t", "a", ".", "o", "r", "g", "/", "p", "r",
         "o", "p", "/", "q", "u", "a", "l", "i", "f", "i", "e", "r", "/",
         "v", "a", "l", "u", "e", "-", "n", "o", "r", "m", "a", "l", "i",
         "z", "e", "d", "/">>,
     prefix |-> <<"p", "q", "n">>],
    [uri |->
       <<"h", "t", "t", "p", ":", "/", "/", "w", "w", "w", ".", "w", "i",
         "k", "i", "d", "a", "t", "a", ".", "o", "r", "g", "/", "p", "r",
         "o", "p", "/", "q", "u", "a", "l", "i", "f", "i", "e", "r", "/",
         "v", "a", "l", "u", "e", "/">>,
     prefix |-> <<"p", "q", "v">>],
    [uri |->
       <<"h", "t", "t", "p", ":", "/", "/", "w", "w", "w", ".", "w", "i",
         "k", "i", "d", "a", "t", "a", ".", "o", "r", "g", "/", "p", "r",
         "o", "p", "/", "r", "e", "f", "e", "r", "e", "n", "c", "e", "/">>,
     prefix |-> <<"p", "r">>],
    [uri |->
       <<"h", "t", "t", "p", ":", "/", "/", "w", "w", "w", ".", "w", "i",
         "k", "i", "d", "a", "t", "a", ".", "o", "r", "g", "/", "p", "r",
         "o", "p", "/", "r", "e", "f", "e", "r", "e", "n", "c", "e", "/",
         "v", "a", "l", "u", "e", "-", "n", "o", "r", "m", "a", "l", "i",
         "z", "e", "d", "/">>,
     prefix |-> <<"p", "r", "n">>],
    [uri |->
       <<"h", "t", "t", "p", ":", "/", "/", "w", "w", "w", ".", "w", "i",
         "k", "i", "d", "a", "t", "a", ".", "o", "r", "g", "/", "p", "r",
         "o", "p", "/", "r", "e", "f", "e", "r", "e", "n", "c", "e", "/",
         "v", "a", "l", "u", "e", "/">>,
     prefix |-> <<"p", "r", "v">>],
    [uri |->
       <<"h", "t", "t", "p", ":", "/", "/", "w", "w", "w", ".", "w", "i",
         "k", "i", "d", "a", "t", "a", ".", "o", "r", "g", "/", "p", "r",
         "o", "p", "/", "s", "t", "a", "t", "e", "m", "e", "n", "t", "/">>,
     prefix |-> <<"p", "s">>],
    [uri |->
       <<"h", "t", "t", "p", ":", "/", "/", "w", "w", "w", ".", "w", "i",
         "k", "i", "d", "a", "t", "a", ".", "o", "r", "g", "/", "p", "r",
         "o", "p", "/", "s", "t", "a", "t", "e", "m", "e", "n", "t", "/",
         "v", "a", "l", "u", "e", "-", "n", "o", "r", "m", "a", "l", "i",
         "z", "e", "d", "/">>,
     prefix |-> <<"p", "s", "n">>],
    [uri |->
       <<"h", "t", "t", "p", ":", "/", "/", "w", "w", "w", ".", "w", "i",
         "k", "i", "d", "a", "t", "a", ".", "o", "r", "g", "/", "p", "r",
         "o", "p", "/", "s", "t", "a", "t", "e", "m", "e", "n", "t", "/",
         "v", "a", "l", "u", "e", "/">>,
     prefix |-> <<"p", "s", "v">>],
    [uri |->
       <<"h", "t", "t", "p", ":", "/", "/", "w", "w", "w", ".", "w", "i",
         "k", "i", "d", "a", "t", "a", ".", "o", "r", "g", "/", "r", "e",
         "f", "e", "r", "e", "n", "c", "e", "/">>,
     prefix |-> <<"w", "d", "r", "e", "f">>],
    [uri |->
       <<"h", "t", "t", "p", ":", "/", "/", "w", "w", "w", ".", "w", "i",
         "k", "i", "d", "a", "t", "a", ".", "o", "r", "g", "/", "v", "a",
         "l", "u", "e", "/">>,
     prefix |-> <<"w", "d", "v">>],
    [uri |->
       <<"h", "t", "t", "p", ":", "/", "/", "w", "w", "w", ".", "w", "i",
         "k", "i", "d", "a", "t", "a", ".", "o", "r", "g", "/", "w", "i",
         "k", "i", "/", "S", "p", "e", "c", "i", "a", "l", ":", "E", "n",
         "t", "i", "t", "y", "D", "a", "t", "a", "/">>,
     prefix |-> <<"w", "d", "a", "t", "a">>]>>

\* WIKIDATA_RDF_PREFIXES.keys()
PrefixUris ==
    {WIKIDATA_RDF_PREFIXES[i].uri : i \in 1..Len(WIKIDATA_RDF_PREFIXES)}

\* WIKIDATA_RDF_PREFIXES[prefix_uri]
PrefixLookup(prefix_uri) ==
    WIKIDATA_RDF_PREFIXES[CHOOSE i \in 1..Len(WIKIDATA_RDF_PREFIXES) :
                             WIKIDATA_RDF_PREFIXES[i].uri = prefix_uri].prefix

\* a.startswith-relation of strings: a is a prefix of b
IsPrefixOf(a, b) == Len(a) <= Len(b) /\ SubSeq(b, 1, Len(a)) = a

\* s[i:j] for 0 <= i and j = -1 (all but the first i and the last character)
SliceToLast(s, i) == SubSeq(s, i + 1, Len(s) - 1)

\* WIKIDATA_RDF_PREFIXES_TRIE.prefixes(key): the keys of the trie that are
\* prefixes of key, the shorter before the longer
TriePrefixes(key) ==
    LET found == {u \in PrefixUris : IsPrefixOf(u, key)}
    IN  CHOOSE seq \in [1..Cardinality(found) -> found] :
            \A i, j \in 1..Cardinality(found) :
                i < j => Len(seq[i]) < Len(seq[j])

\* A bug: the shortest registered prefix is taken.
FirstPrefixUri(prefix_urls) == prefix_urls[1]

\* prefix_uri = prefix_urls[-1]
LastPrefixUri(prefix_urls) == prefix_urls[Len(prefix_urls)]

\* A bug: the angle brackets are stripped when no prefix is registered.
UnprefixedUriStripped(uri) == SliceToLast(uri, 1)

\* the final "return uri": no registered prefix, the argument as it came
UnprefixedUri(uri) == uri

\* _prefix_ntriples_uri(uri), for a non-empty uri
PrefixNtriplesUri(uri) ==
    IF uri[1] # "<" THEN uri
    ELSE LET prefix_urls == TriePrefixes(SliceToLast(uri, 1))
         IN  IF prefix_urls # <<>>
             THEN LET prefix_uri == LastPrefixUri(prefix_urls)
                      prefix     == PrefixLookup(prefix_uri)
                  IN  prefix \o <<":">> \o SliceToLast(uri, Len(prefix_uri) + 1)
             ELSE UnprefixedUri(uri)

\* URIs no registered URI is a prefix of, and one that only the shorter of
\* two nested registered URIs is a prefix of
UnregisteredUris == {
    <<"h", "t", "t", "p", ":", "/", "/", "e", "x", "a", "m", "p", "l", "e",
      ".", "o", "r", "g", "/">>,
    <<"h", "t", "t", "p", ":", "/", "/", "w", "w", "w", ".", "w", "i", "k",
      "i", "d", "a", "t", "a", ".", "o", "r", "g", "/">>,
    <<"h", "t", "t", "p", ":", "/", "/", "w", "w", "w", ".", "w", "i", "k",
      "i", "d", "a", "t", "a", ".", "o", "r", "g", "/", "p", "r", "o", "p",
      "/", "d", "i", "r", "e", "c", "t">>,
    <<>>}

LocalNames == StringsUpTo({"Q", "1"}, MaxLocalLen)

\* the text between the angle brackets of the URIs handed to the function
UriTexts == {base \o local : base \in PrefixUris \cup UnregisteredUris,
                             local \in LocalNames}

\* the terms of an N-Triples line: URIs in angle brackets, and terms that
\* are no URIs: blank nodes, quoted literals, and bare text
PrefixInputs ==
    {<<"<">> \o t \o <<">">> : t \in UriTexts}
        \cup {<<"_", ":">> \o local : local \in LocalNames}
        \cup {<<"\"">> \o t \o <<"\"">> : t \in UriTexts}
        \cup (UriTexts \ {<<>>})

PrefixIdle == pUri = <<>> /\ pPc = "idle" /\ pResult = <<>>

PrefixInit == pUri \in PrefixInputs /\ pPc = "input" /\ pResult = <<>>

PrefixCall ==
    /\ pPc = "input"
    /\ pResult' = PrefixNtriplesUri(pUri)
    /\ pPc' = "returned"
    /\ UNCHANGED pUri
    /\ UNCHANGED <<eqVars, diffVars, mainVars, poolVars>>

-----------------------------------------------------------------------------
(* Specification SpecPool: the worker pool of WikidatedDataset.build.      *)
(* parallelize starts up to max_workers worker processes; each calls       *)
(* init_worker_func once when it starts, is handed partitions one at a     *)
(* time, each partition to one worker, and calls exit_worker_func once     *)
(* when no partition is left.  A partition's build is followed here only   *)
(* as far as the converter and the archive paths it touches.               *)
(*   wState[w]     "unborn", "ready", "building", "exited"                 *)
(*   wItem[w]      the partition worker w builds (0: none)                 *)
(*   wCalls[w]     revisions of that partition converted so far            *)
(*   jvmManager[w] _JVM_MANAGER of worker process w (0: None)              *)
(*   extraArguments[w]   the mapping init_worker_func returned (the        *)
(*                 converter is known by the JVM manager it wraps)         *)
(*   queue         partitions not handed to a worker yet                   *)
(*   constructed   JVM managers constructed so far: instances              *)
(*                 1..constructed                                          *)
(*   acquiredBy[i], closedBy[i]   history: the worker that constructed     *)
(*                 instance i, the workers that closed it                  *)
(*   usedBy        history: <<i, w, p>> when w converted a revision of p   *)
(*                 with the converter on instance i                        *)
(*   disk          the archive paths that exist                            *)
(*   pathWriters   history: <<path, w>> when w wrote or renamed to path    *)

Workers == 1..MaxWorkers

NoArguments == [rdf_converter |-> 0]

PoolIdle ==
    /\ wState = [w \in Workers |-> "unborn"]
    /\ wItem = [w \in Workers |-> 0]
    /\ wCalls = [w \in Workers |-> 0]
    /\ jvmManager = [w \in Workers |-> 0]
    /\ extraArguments = [w \in Workers |-> NoArguments]
    /\ queue = {}
    /\ constructed = 0
    /\ acquiredBy = <<>>
    /\ closedBy = <<>>
    /\ usedBy = {}
    /\ disk = {}
    /\ pathWriters = {}

\* build() is called with any of the archives (and leftover temporary
\* archives) of earlier calls on disk
PoolInit ==
    /\ wState = [w \in Workers |-> "unborn"]
    /\ wItem = [w \in Workers |-> 0]
    /\ wCalls = [w \in Workers |-> 0]
    /\ jvmManager = [w \in Workers |-> 0]
    /\ extraArguments = [w \in Workers |-> NoArguments]
    /\ queue = Partitions
    /\ constructed = 0
    /\ acquiredBy = <<>>
    /\ closedBy = <<>>
    /\ usedBy = {}
    /\ disk \in SUBSET ({FinalPath(p) : p \in Partitions}
                          \cup {TmpPath(p) : p \in Partitions})
    /\ pathWriters = {}

\* _init_worker_with_rdf_converter in worker w:
\*   _JVM_MANAGER = self._jvm_manager_constructor()
\*   return {"rdf_converter": WikidataRdfConverter(sites_table, _JVM_MANAGER)}
InitWorker(w) ==
    /\ wState[w] = "unborn"
    /\ queue # {}
    /\ constructed' = constructed + 1
    /\ acquiredBy' = Append(acquiredBy, w)
    /\ closedBy' = Append(closedBy, <<>>)
    /\ jvmManager' = [jvmManager EXCEPT ![w] = constructed + 1]
    /\ extraArguments' = [extraArguments EXCEPT
                             ![w] = [rdf_converter |-> constructed + 1]]
    /\ wState' = [wState EXCEPT ![w] = "ready"]
    /\ UNCHANGED <<wItem, wCalls, queue, usedBy, disk, pathWriters>>
    /\ UNCHANGED <<eqVars, diffVars, mainVars, prefixVars>>

\* A bug: the converter of some worker is taken, not the worker's own.
RdfConverterOfAnyWorker(w) ==
    extraArguments[CHOOSE v \in Workers :
                      extraArguments[v].rdf_converter # 0].rdf_converter

\* rdf_converter = extra_arguments["rdf_converter"]
RdfConverterOf(w) == extraArguments[w].rdf_converter

\* worker w is handed partition p and calls _build_entity_streams_partial:
\* build() returns at once when the archive exists
TakePartition(w, p) ==
    /\ wState[w] = "ready"
    /\ p \in queue
    /\ queue' = queue \ {p}
    /\ IF FinalPath(p) \in disk
       THEN UNCHANGED <<wState, wItem>>
       ELSE /\ wState' = [wState EXCEPT ![w] = "building"]
            /\ wItem' = [wItem EXCEPT ![w] = p]
    /\ UNCHANGED <<wCalls, jvmManager, extraArguments, constructed,
                   acquiredBy, closedBy, usedBy, disk, pathWriters>>
    /\ UNCHANGED <<eqVars, diffVars, mainVars, prefixVars>>

\* worker w converts the next revision of its partition with the converter
\* it was given and, when that yields a revision, writes it to the
\* temporary archive
PoolConvert(w, writes) ==
    /\ wState[w] = "building"
    /\ wCalls[w] < MaxPoolRevs
    /\ wCalls' = [wCalls EXCEPT ![w] = @ + 1]
    /\ usedBy' = usedBy \cup {<<RdfConverterOf(w), w, wItem[w]>>}
    /\ IF writes
       THEN /\ disk' = disk \cup {TmpPath(wItem[w])}
            /\ pathWriters' = pathWriters \cup {<<TmpPath(wItem[w]), w>>}
       ELSE UNCHANGED <<disk, pathWriters>>
    /\ UNCHANGED <<wState, wItem, jvmManager, extraArguments, queue,
                   constructed, acquiredBy, closedBy>>
    /\ UNCHANGED <<eqVars, diffVars, mainVars, prefixVars>>

\* worker w calls the converter it was given on the next revision of its
\* partition and the call raises an exception that is no
\* WikidataRdfConversionError: the exception leaves build() and
\* _build_entity_streams_partial, the temporary archive stays as it is and
\* nothing is renamed; the worker is free for its next partition
PoolRaise(w) ==
    /\ wState[w] = "building"
    /\ wCalls[w] < MaxPoolRevs
    /\ usedBy' = usedBy \cup {<<RdfConverterOf(w), w, wItem[w]>>}
    /\ wState' = [wState EXCEPT ![w] = "ready"]
    /\ wItem' = [wItem EXCEPT ![w] = 0]
    /\ wCalls' = [wCalls EXCEPT ![w] = 0]
    /\ UNCHANGED <<jvmManager, extraArguments, queue, constructed,
                   acquiredBy, closedBy, disk, pathWriters>>
    /\ UNCHANGED <<eqVars, diffVars, mainVars, prefixVars>>

\* the partition of worker w is consumed: tmp_path.rename(self._path), which
\* raises when there is no temporary archive; either way the worker is free
\* for its next partition
PoolRename(w) ==
    /\ wState[w] = "building"
    /\ IF TmpPath(wItem[w]) \in disk
       THEN /\ disk' = (disk \ {TmpPath(wItem[w])}) \cup {FinalPath(wItem[w])}
            /\ pathWriters' = pathWriters \cup {<<FinalPath(wItem[w]), w>>}
       ELSE UNCHANGED <<disk, pathWriters>>
    /\ wState' = [wState EXCEPT ![w] = "ready"]
    /\ wItem' = [wItem EXCEPT ![w] = 0]
    /\ wCalls' = [wCalls EXCEPT ![w] = 0]
    /\ UNCHANGED <<jvmManager, extraArguments, queue, constructed,
                   acquiredBy, closedBy, usedBy>>
    /\ UNCHANGED <<eqVars, diffVars, mainVars, prefixVars>>

\* _exit_worker_with_rdf_converter in worker w, when no partition is left:
\*   if _JVM_MANAGER is not None: _JVM_MANAGER.close(); _JVM_MANAGER = None
ExitWorker(w) ==
    /\ wState[w] = "ready"
    /\ queue = {}
    /\ IF jvmManager[w] # 0
       THEN /\ closedBy' = [closedBy EXCEPT ![jvmManager[w]] = Append(@, w)]
            /\ jvmManager' = [jvmManager EXCEPT ![w] = 0]
       ELSE UNCHANGED <<closedBy, jvmManager>>
    /\ wState' = [wState EXCEPT ![w] = "exited"]
    /\ UNCHANGED <<wItem, wCalls, extraArguments, queue, constructed,
                   acquiredBy, usedBy, disk, pathWriters>>
    /\ UNCHANGED <<eqVars, diffVars, mainVars, prefixVars>>

-----------------------------------------------------------------------------
(* The specifications.                                                     *)

Init == EqIdle /\ DiffIdle /\ MainInit /\ PoolIdle /\ PrefixIdle

Next ==
    \/ DatasetBuild
    \/ \E p \in Partitions : BuildStart(p)
    \/ \E p \in Partitions : ConvertRevision(p)
    \/ \E p \in Partitions : Rename(p)
    \/ \E p \in Partitions : RaiseInBuild(p)
    \/ MergedBuild
    \/ Reraise
    \/ Interrupt
    \/ IterRevisionsGlobal

Spec == Init /\ [][Next]_vars

InitEq == EqInit /\ DiffIdle /\ MainIdle /\ PoolIdle /\ PrefixIdle

NextEq == Compare

SpecEq == InitEq /\ [][NextEq]_vars

InitDiff == EqIdle /\ DiffInit /\ MainIdle /\ PoolIdle /\ PrefixIdle

NextDiff ==
    \/ \E ts \in ConvOutputs : DiffConverted(ts)
    \/ DiffConversionError

SpecDiff == InitDiff /\ [][NextDiff]_vars

InitPool == EqIdle /\ DiffIdle /\ MainIdle /\ PoolInit /\ PrefixIdle

NextPool ==
    \/ \E w \in Workers : InitWorker(w)
    \/ \E w \in Workers : \E p \in Partitions : TakePartition(w, p)
    \/ \E w \in Workers : \E writes \in BOOLEAN : PoolConvert(w, writes)
    \/ \E w \in Workers : PoolRaise(w)
    \/ \E w \in Workers : PoolRename(w)
    \/ \E w \in Workers : ExitWorker(w)

SpecPool == InitPool /\ [][NextPool]_vars

InitPrefix == EqIdle /\ DiffIdle /\ MainIdle /\ PoolIdle /\ PrefixInit

NextPrefix == PrefixCall

SpecPrefix == InitPrefix /\ [][NextPrefix]_vars

-----------------------------------------------------------------------------
(* Claims about the diff generator (SpecDiff).                             *)

\* T_i: the triple set of the i-th revision fed to the generator, T_0 empty
TripleSetOf(i) == IF i = 0 THEN {} ELSE PySet(dRevisions[i].conv.triples)

AllConverted == \A i \in 1..Len(dRevisions) : dRevisions[i].conv.ok

\* active_i: the emitted diffs replayed from the empty set
RECURSIVE Replayed(_)
Replayed(i) ==
    IF i = 0 THEN {}
    ELSE SetDifference(
             SetUnionInto(Replayed(i - 1), SeqToSet(dOut[i].triple_additions)),
             SeqToSet(dOut[i].triple_deletions))

IsDuplicateFree(seq) == Cardinality(SeqToSet(seq)) = Len(seq)

\* C1 (diff correctness): when every revision converts, the i-th emitted
\* WikidatedRevision has triple_additions = T_i - T_{i-1} and
\* triple_deletions = T_{i-1} - T_i, the first one adds all of T_1 and deletes
\* nothing, and replaying additions and deletions from the empty set gives a
\* set equal to T_i after every revision.
C1_DiffCorrectness ==
    AllConverted =>
        /\ Len(dOut) = Len(dRevisions)
        /\ \A i \in 1..Len(dOut) :
            /\ IsDuplicateFree(dOut[i].triple_additions)
            /\ IsDuplicateFree(dOut[i].triple_deletions)
            /\ SeqToSet(dOut[i].triple_additions)
                 = SetDifference(TripleSetOf(i), TripleSetOf(i - 1))
            /\ SeqToSet(dOut[i].triple_deletions)
                 = SetDifference(TripleSetOf(i - 1), TripleSetOf(i))
            /\ SetEquals(Replayed(i), TripleSetOf(i))
        /\ Len(dOut) >= 1 =>
            /\ SeqToSet(dOut[1].triple_additions) = TripleSetOf(1)
            /\ dOut[1].triple_deletions = <<>>

\* the scenario {A,B}, {A,B,C}, {B,C} with C the blank-node triple TN1:
\* the diffs are (+{A,B}, -{}), (+{C}, -{}), (+{}, -{A})
C1_Witness ==
    /\ Len(dRevisions) = 3
    /\ dRevisions[1].conv = Converted(<<TA, TB>>)
    /\ dRevisions[2].conv = Converted(<<TN1, TA, TB>>)
    /\ dRevisions[3].conv = Converted(<<TN1, TB>>)
    /\ Len(dOut) = 3
    /\ dOut[1].triple_additions = <<TA, TB>> /\ dOut[1].triple_deletions = <<>>
    /\ dOut[2].triple_additions = <<TN1>> /\ dOut[2].triple_deletions = <<>>
    /\ dOut[3].triple_additions = <<>> /\ dOut[3].triple_deletions = <<TA>>

\* seq without its k-th element
RemoveAt(seq, k) == SubSeq(seq, 1, k - 1) \o SubSeq(seq, k + 1, Len(seq))

\* C2 (skip on failure): for every revision k whose conversion raised, what
\* the generator has emitted, and its state, are those of a run over the
\* same revisions with revision k removed.
C2_SkipOnFailure ==
    \A k \in 1..Len(dRevisions) :
        ~dRevisions[k].conv.ok =>
            LET without == IterWikidatedRevisions(RemoveAt(dRevisions, k))
            IN  /\ dOut = without.emitted
                /\ dState = without.state

\* revision 2 of 3 failed, and revision 3 was diffed against revision 1
C2_Witness ==
    /\ Len(dRevisions) = 3
    /\ dRevisions[1].conv = Converted(<<TA, TB>>)
    /\ ~dRevisions[2].conv.ok
    /\ dRevisions[3].conv = Converted(<<TB>>)
    /\ Len(dOut) = 2
    /\ dOut[2].revision_id = 3
    /\ dOut[2].triple_deletions = <<TA>>
    /\ dOut[2].triple_additions = <<>>

-----------------------------------------------------------------------------
(* Claims about triple equality (SpecEq).                                  *)

\* C6 (triple equivalence): a == b exactly when subjects and predicates are
\* equal and either both objects start with "_:" or the objects are equal;
\* and a == b implies hash(a) == hash(b).
C6_TripleEquivalence ==
    eqPc = "compared" =>
        /\ eqResult <=>
             /\ eqA.subject = eqB.subject
             /\ eqA.predicate = eqB.predicate
             /\ \/ /\ Len(eqA.object_) >= 2 /\ Len(eqB.object_) >= 2
                   /\ eqA.object_[1] = "_" /\ eqA.object_[2] = ":"
                   /\ eqB.object_[1] = "_" /\ eqB.object_[2] = ":"
                \/ eqA.object_ = eqB.object_
        /\ eqResult => eqHashA = eqHashB

\* two triples that differ only in the blank node identifier were compared
\* equal with equal hashes
C6_Witness ==
    /\ eqPc = "compared"
    /\ eqA.object_ = <<"_", ":", "a">>
    /\ eqB.object_ = <<"_", ":", "_">>
    /\ eqResult
    /\ eqHashA = eqHashB

-----------------------------------------------------------------------------
(* Claims about the partition build (Spec).                                *)

\* the complete output of partition p: the archive of a build that ran to
\* its end on an empty disk
CompleteOutput(p) == UninterruptedBuild(input[p]).archive

\* C3 (commit atomicity): in every state, killed and failed runs included,
\* the final-named archive of a partition does not exist or is the complete
\* output of the partition; the final name changes only by the rename of the
\* temporary archive, taken by a running build that has consumed all its
\* revisions, and a build that has not finished touches the temporary path
\* alone.
C3_CommitAtomicity ==
    /\ [](\A p \in Partitions :
            final[p].exists => final[p] = CompleteOutput(p))
    /\ [][\A p \in Partitions :
            final'[p] # final[p] =>
                /\ pc[p] = "running"
                /\ pos[p] = Len(input[p])
                /\ final'[p] = tmp[p]
                /\ ~tmp'[p].exists
                /\ pc'[p] = "done"]_vars

\* one partition is committed while another one, killed before, is being
\* rebuilt and has a partly written temporary archive but no final one
C3_Witness ==
    \E p, q \in Partitions :
        /\ pc[p] = "done" /\ final[p].exists
        /\ interrupted[q] /\ pc[q] = "running" /\ pos[q] < Len(input[q])
        /\ tmp[q].exists /\ ~final[q].exists

\* C4 (idempotence): while the final-named archive of a partition exists,
\* no step changes it or the temporary path, no build of the partition runs,
\* and a build call on it ends skipped, having yielded nothing and called the
\* converter zero times.
C4_Idempotence ==
    /\ [](\A p \in Partitions :
            pc[p] = "skipped" =>
                final[p].exists /\ yielded[p] = <<>> /\ convCalls[p] = 0)
    /\ [][\A p \in Partitions :
            final[p].exists =>
                /\ final'[p] = final[p]
                /\ tmp'[p] = tmp[p]
                /\ pc'[p] # "running"
                /\ pc[p] = "pending" /\ pc'[p] # pc[p] =>
                    /\ pc'[p] \in {"skipped", "idle"}
                    /\ yielded'[p] = <<>>
                    /\ convCalls'[p] = 0]_vars

\* a second build call on a committed, non-empty archive was skipped
C4_Witness ==
    \E p \in Partitions :
        /\ pc[p] = "skipped"
        /\ final[p].exists
        /\ final[p] = CompleteOutput(p)
        /\ DOMAIN final[p].members # {}
        /\ convCalls[p] = 0

\* C5 (resume): a partition whose build was killed before its rename and
\* whose build call then returned has the archive an uninterrupted build
\* produces, and nothing is left at the temporary path.
C5_Resume ==
    \A p \in Partitions :
        interrupted[p] /\ pc[p] \in {"done", "skipped"} =>
            /\ final[p].exists
            /\ final[p] = CompleteOutput(p)
            /\ ~tmp[p].exists

\* a partition killed in the middle of writing was rebuilt and committed in
\* a call that skipped the other, already committed partition
C5_Witness ==
    \E p, q \in Partitions :
        /\ interrupted[p] /\ pc[p] = "done"
        /\ Len(yielded[p]) >= 2
        /\ final[p] = CompleteOutput(p)
        /\ pc[q] = "skipped"

\* the entities of partition p that produced a WikidatedRevision in the
\* build call
EntitiesYielded(p) == {yielded[p][i].page_id : i \in 1..Len(yielded[p])}

EntitiesOf(p) == {input[p][i].page_id : i \in 1..Len(input[p])}

EveryRevisionFails(p, e) ==
    \A i \in 1..Len(input[p]) :
        input[p][i].page_id = e => ~input[p][i].conv.ok

\* C7 (member set): after the build of a partition has committed, the
\* archive has a member for an entity exactly when the entity produced a
\* WikidatedRevision, no member is empty, an entity whose every revision
\* failed has no member, and iter_page_ids gives exactly the page ids of the
\* entities that produced a WikidatedRevision.
C7_MemberSet ==
    \A p \in Partitions :
        pc[p] = "done" =>
            /\ DOMAIN final[p].members
                 = {EntityFileNameFromPageId(e) : e \in EntitiesYielded(p)}
            /\ \A n \in DOMAIN final[p].members : final[p].members[n] # <<>>
            /\ \A e \in EntitiesOf(p) :
                 EveryRevisionFails(p, e) =>
                     EntityFileNameFromPageId(e) \notin DOMAIN final[p].members
            /\ IterPageIds(final[p])
                 = [ok |-> TRUE, page_ids |-> EntitiesYielded(p)]

\* a committed archive of a partition with an entity whose revisions all
\* failed and an entity that has a member
C7_Witness ==
    \E p \in Partitions :
        /\ pc[p] = "done"
        /\ \E e \in EntitiesOf(p) : EveryRevisionFails(p, e)
        /\ IterPageIds(final[p]).page_ids # {}

\* the first revision of entity e in the file of partition p fails
FirstRevisionFails(p, e) ==
    \E i \in 1..Len(input[p]) :
        /\ input[p][i].page_id = e
        /\ ~input[p][i].conv.ok
        /\ \A j \in 1..(i - 1) : input[p][j].page_id # e

\* C8 as claimed (first-revision failure): an entity whose first revision
\* fails yields no WikidatedRevision and has no member, whatever its later
\* revisions do.
C8_FirstFailureDropsEntity ==
    \A p \in Partitions :
        pc[p] = "done" =>
            \A e \in EntitiesOf(p) :
                FirstRevisionFails(p, e) =>
                    /\ e \notin EntitiesYielded(p)
                    /\ EntityFileNameFromPageId(e) \notin DOMAIN final[p].members

\* C8 as amended: an entity whose first revision fails yields nothing for
\* that revision; it is absent from the committed archive exactly when all
\* its revisions fail; otherwise its first WikidatedRevision is that of its
\* first revision that converts, deleting nothing and adding all the triples
\* of that revision, and it is the first line of the entity's member when the
\* entity's revisions are contiguous.
C8_FirstFailureSkipsRevision ==
    \A p \in Partitions :
        pc[p] = "done" =>
            \A e \in EntitiesOf(p) :
                FirstRevisionFails(p, e) =>
                    LET name == EntityFileNameFromPageId(e)
                        mine == {i \in 1..Len(input[p]) :
                                    input[p][i].page_id = e}
                        good == {i \in mine : input[p][i].conv.ok}
                        outs == {k \in 1..Len(yielded[p]) :
                                    yielded[p][k].page_id = e}
                    IN  /\ \A k \in outs :
                            yielded[p][k].revision_id
                              \in {input[p][i].revision_id : i \in good}
                        /\ (name \notin DOMAIN final[p].members) <=> good = {}
                        /\ good # {} =>
                            LET i1 == CHOOSE i \in good : \A j \in good : i <= j
                                k1 == CHOOSE k \in outs : \A l \in outs : k <= l
                                d  == yielded[p][k1]
                            IN  /\ d.revision_id = input[p][i1].revision_id
                                /\ d.triple_deletions = <<>>
                                /\ SeqToSet(d.triple_additions)
                                     = PySet(input[p][i1].conv.triples)
                                /\ (\A i \in mine : \A j \in mine :
                                        \A m \in i..j : m \in mine) =>
                                     final[p].members[name][1] = Serialize(d)

\* the first revision of an entity failed, a later one converted, and the
\* committed archive has the entity's member
C8_Witness ==
    \E p \in Partitions :
        /\ pc[p] = "done"
        /\ \E e \in EntitiesOf(p) :
            /\ FirstRevisionFails(p, e)
            /\ e \in EntitiesYielded(p)
            /\ EntityFileNameFromPageId(e) \in DOMAIN final[p].members

-----------------------------------------------------------------------------
(* Claims about the merge stages (Spec).                                   *)

\* C9 as claimed (entity-level merge): once the merge of the committed
\* partition archives has been run, one merged archive exists whose members
\* are the union of the partitions' members, each with its lines unchanged.
C9_EntityMerge ==
    mergeStatus # "not_called" =>
        /\ mergeStatus = "ok"
        /\ merged.exists
        /\ DOMAIN merged.members
             = UNION {DOMAIN final[p].members : p \in Partitions}
        /\ \A p \in Partitions : \A n \in DOMAIN final[p].members :
             merged.members[n] = final[p].members[n]

\* every WikidatedRevision of every entity of the dump
AllWikidatedRevisions ==
    UNION {SeqToSet(UninterruptedBuild(input[p]).yielded) : p \in Partitions}

\* (timestamp, revision_id) of a is not after that of b
NotAfter(a, b) ==
    \/ a.timestamp < b.timestamp
    \/ a.timestamp = b.timestamp /\ a.revision_id <= b.revision_id

\* C10 as claimed (global ordering): a call of iter_revisions() without an
\* entity id, made when every partition archive is committed, returns a
\* stream that holds every WikidatedRevision of every entity exactly once
\* and is non-decreasing in (timestamp, revision_id).
C10_GlobalOrdering ==
    /\ globalStream.status # "not_called"
    /\ \A p \in Partitions : final[p].exists
    => /\ globalStream.status = "ok"
       /\ SeqToSet(globalStream.revisions) = AllWikidatedRevisions
       /\ Len(globalStream.revisions) = Cardinality(AllWikidatedRevisions)
       /\ \A i \in 1..Len(globalStream.revisions) :
            \A j \in i..Len(globalStream.revisions) :
                NotAfter(globalStream.revisions[i], globalStream.revisions[j])

-----------------------------------------------------------------------------
(* Claims about the worker pool (SpecPool).                                *)

\* the JVM manager instances worker w constructed
AcquiredByWorker(w) == {i \in 1..constructed : acquiredBy[i] = w}

\* the partitions worker w converted revisions of
PartitionsUsedBy(w) == {u[3] : u \in {v \in usedBy : v[2] = w}}

\* C11 -- Worker resource lifecycle: a worker that has started has
\* constructed exactly one JVM manager (and converter on it), also after it
\* built several partitions; every conversion a worker makes, for whatever
\* partition, uses the instance that worker constructed; an instance is
\* closed only by the worker that constructed it, not while that worker
\* still has partitions to build, and exactly once when the worker has
\* exited.
C11_WorkerResourceLifecycle ==
    /\ \A w \in Workers :
        /\ Cardinality(AcquiredByWorker(w))
             = (IF wState[w] = "unborn" THEN 0 ELSE 1)
        /\ \A u \in usedBy : u[2] = w => u[1] \in AcquiredByWorker(w)
        /\ \A i \in AcquiredByWorker(w) :
             closedBy[i] = (IF wState[w] = "exited" THEN <<w>> ELSE <<>>)
    /\ \A u \in usedBy : u[1] \in 1..constructed /\ acquiredBy[u[1]] = u[2]
    /\ \A i \in 1..constructed :
         \A k \in 1..Len(closedBy[i]) : closedBy[i][k] = acquiredBy[i]

\* two workers have started and exited, each with an instance of its own,
\* and one of them converted revisions of both partitions
C11_Witness ==
    /\ \A w \in Workers : w <= 2 => wState[w] = "exited"
    /\ \E w \in Workers : PartitionsUsedBy(w) = Partitions
    /\ constructed >= 2

-----------------------------------------------------------------------------
(* Claims about failures of a partition's build (Spec).                    *)

\* C12 -- Failure isolation: when the build of a partition has raised, no
\* archive is at that partition's final path, the build call does not go on
\* to the merge (it ends by re-raising the exception), and the final archive
\* of every other partition is absent or exactly the archive an
\* uninterrupted build of that partition writes.
C12_FailureIsolation ==
    \A p \in Partitions :
        pc[p] = "raised" =>
            /\ ~final[p].exists
            /\ mergeStatus = "not_called"
            /\ \A q \in Partitions \ {p} :
                 final[q].exists => final[q] = CompleteOutput(q)

\* the build call has ended by re-raising: a partition raised after it had
\* written to its temporary archive, another partition is committed
C12_Witness ==
    /\ stage = "idle"
    /\ \E p, q \in Partitions :
        /\ pc[p] = "raised" /\ tmp[p].exists /\ yielded[p] # <<>>
        /\ pc[q] = "done" /\ final[q].exists /\ yielded[q] # <<>>

\* the revisions of partition p come ordered by page id, as the dump's
\* pages-meta-history files have them
InputOrdered(p) ==
    \A i, j \in 1..Len(input[p]) :
        i < j => input[p][i].page_id <= input[p][j].page_id

\* C13 -- Progress reporting: for a partition whose build has completed,
\* built or skipped because its archive exists, over revisions ordered by
\* page id, every progress call carries the partition's archive name and
\* the size of its page id range as total, items_done of a call is never
\* lower than in an earlier call, and the last call has
\* items_done = items_total.
C13_ProgressReporting ==
    \A p \in Partitions :
        pc[p] \in {"done", "skipped"} /\ InputOrdered(p) =>
            LET calls == progress[p]
            IN  /\ calls # <<>>
                /\ \A i \in 1..Len(calls) :
                     /\ calls[i].name = FinalPath(p)
                     /\ calls[i].items_total = RangeLen(PageIdRange(p))
                /\ \A i, j \in 1..Len(calls) :
                     i < j => calls[i].items_done <= calls[j].items_done
                /\ calls[Len(calls)].items_done
                     = calls[Len(calls)].items_total

\* a partition was built from revisions of two entities, with progress calls
\* for both, and in a later call of build the other partition was skipped
C13_Witness ==
    \E p, q \in Partitions :
        /\ pc[p] = "done" /\ InputOrdered(p)
        /\ Cardinality(EntitiesYielded(p)) = 2
        /\ Len(progress[p]) >= 4
        /\ pc[q] = "skipped" /\ Len(progress[q]) = 2

-----------------------------------------------------------------------------
(* Claims about the order and form of the generator's output (SpecDiff).   *)

\* the positions of the input revisions whose conversion succeeds
ConvertedPositions == {i \in 1..Len(dRevisions) : dRevisions[i].conv.ok}

\* the k-th of them
ConvertedPosition(k) ==
    CHOOSE i \in ConvertedPositions :
        Cardinality({j \in ConvertedPositions : j <= i}) = k

\* C14 -- Output order of the diff engine: the generator has yielded one
\* revision for every input revision whose conversion succeeded and none for
\* the others, in the order of the input, each with the entity, revision id
\* and timestamp of the input revision it was computed from.
C14_OutputOrder ==
    /\ Len(dOut) = Cardinality(ConvertedPositions)
    /\ \A k \in 1..Len(dOut) :
        LET revision == dRevisions[ConvertedPosition(k)]
        IN  /\ dOut[k].page_id = revision.page_id
            /\ dOut[k].revision_id = revision.revision_id
            /\ dOut[k].timestamp = revision.timestamp

\* three revisions, the second fails: the outputs are those of the first and
\* the third, in that order
C14_Witness ==
    /\ Len(dRevisions) = 3
    /\ ConvertedPositions = {1, 3}
    /\ Len(dOut) = 2
    /\ dOut[1].revision_id = dRevisions[1].revision_id
    /\ dOut[2].revision_id = dRevisions[3].revision_id

-----------------------------------------------------------------------------
(* The order of the revisions in a dump (Spec).                             *)

\* the revisions of each entity of partition p are contiguous in the dump
InputGrouped(p) ==
    \A i, j, k \in 1..Len(input[p]) :
        i < j /\ j < k /\ input[p][i].page_id = input[p][k].page_id
            => input[p][j].page_id = input[p][i].page_id

\* seq is strictly ascending in the order of the (subject, predicate,
\* object) tuples
IsAscending(seq) ==
    \A i, j \in 1..Len(seq) : i < j => TripleLt(seq[i], seq[j])

\* no two elements of seq are equal under WikidataRdfTriple.__eq__
HasNoEquivalentTriples(seq) ==
    \A i, j \in 1..Len(seq) : i # j => ~TripleEq(seq[i], seq[j])

\* C16 -- Sorted diff lists: in every revision the generator has yielded,
\* triple_additions and triple_deletions are each in ascending
\* lexicographic order of the (subject, predicate, object) tuples and hold
\* no two equivalent triples.
C16_SortedDiffLists ==
    \A k \in 1..Len(dOut) :
        /\ IsAscending(dOut[k].triple_additions)
        /\ HasNoEquivalentTriples(dOut[k].triple_additions)
        /\ IsAscending(dOut[k].triple_deletions)
        /\ HasNoEquivalentTriples(dOut[k].triple_deletions)

\* the first conversion lists two equivalent triples, of which one is added;
\* the second revision adds two triples, the third deletes two
C16_Witness ==
    /\ Len(dOut) = 3
    /\ dRevisions[1].conv.triples = <<TN1, TN2>>
    /\ dOut[1].triple_additions = <<TN1>>
    /\ dOut[2].triple_additions = <<TA, TB>>
    /\ dOut[3].triple_deletions = <<TA, TB>>

-----------------------------------------------------------------------------
(* Claims about the tally of conversion failures (Spec).                   *)

\* the revisions of partition p the build converted whose conversion failed
FailedConversions(p) ==
    {i \in 1..pos[p] : ~input[p][i].conv.ok}

\* C17 -- Conversion-failure tally: when the partitions are built, the count
\* of conversion failures the build has kept holds, for the reason of the
\* failures, the number of revisions whose conversion failed.
C17_FailureTally ==
    (\A p \in Partitions : pc[p] = "done") =>
        CounterGet(BuildFailureCounter, ConversionErrorReason)
            = Cardinality(UNION {{<<p, i>> : i \in FailedConversions(p)} :
                                    p \in Partitions})

-----------------------------------------------------------------------------
(* Claims about the archive paths in the worker pool (SpecPool).           *)

\* the non-empty page id ranges up to MaxPageId
PageIdRanges ==
    {[start |-> a, stop |-> b] : a \in 0..MaxPageId, b \in 1..(MaxPageId + 1)}
        \ {r \in [start : 0..MaxPageId, stop : 1..(MaxPageId + 1)] :
              r.stop <= r.start}

RangesDisjoint(r, s) == r.stop <= s.start \/ s.stop <= r.start

\* the archive names of a set of page id ranges, and the temporary names
PartialFileNames(ranges) == {PartialFileName(r) : r \in ranges}

TmpFileNames(ranges) == {TmpPrefix \o PartialFileName(r) : r \in ranges}

\* the workers that wrote to path or renamed an archive to it
WritersOf(path) == {x[2] : x \in {y \in pathWriters : y[1] = path}}

\* C18 -- No write contention: different page id ranges (so all the more
\* disjoint ones) have different final paths and different temporary paths,
\* and no temporary path is a final path; the partitions of the dump have
\* disjoint ranges and so different paths; at any time a partition is built
\* by at most one worker, and no path was ever written by two workers.
C18_NoWriteContention ==
    /\ Cardinality(PartialFileNames(PageIdRanges)) = Cardinality(PageIdRanges)
    /\ Cardinality(TmpFileNames(PageIdRanges)) = Cardinality(PageIdRanges)
    /\ PartialFileNames(PageIdRanges) \cap TmpFileNames(PageIdRanges) = {}
    /\ \A p, q \in Partitions :
         p # q => /\ RangesDisjoint(PageIdRange(p), PageIdRange(q))
                  /\ FinalPath(p) # FinalPath(q)
                  /\ TmpPath(p) # TmpPath(q)
                  /\ TmpPath(p) # FinalPath(q)
    /\ \A p \in Partitions :
         Cardinality({w \in Workers : wItem[w] = p}) <= 1
    /\ \A x \in pathWriters : WritersOf(x[1]) = {x[2]}

\* two workers are building at the same time and each has written to the
\* temporary archive of its partition
C18_Witness ==
    \E v, w \in Workers :
        /\ v # w
        /\ wState[v] = "building" /\ wState[w] = "building"
        /\ <<TmpPath(wItem[v]), v>> \in pathWriters
        /\ <<TmpPath(wItem[w]), w>> \in pathWriters
        /\ TmpPath(wItem[v]) \in disk /\ TmpPath(wItem[w]) \in disk

-----------------------------------------------------------------------------
(* Claims about the abbreviation of URIs (SpecPrefix).                     *)

\* uri is delimited as a URI: it stands in angle brackets
IsDelimited(uri) == Len(uri) >= 2 /\ uri[1] = "<" /\ uri[Len(uri)] = ">"

\* the text between the delimiters
Undelimited(uri) == SubSeq(uri, 2, Len(uri) - 1)

\* the registered ontology URIs that are prefixes of the text t
RegisteredPrefixesOf(t) ==
    {i \in 1..Len(WIKIDATA_RDF_PREFIXES) :
        Len(WIKIDATA_RDF_PREFIXES[i].uri) <= Len(t)
        /\ \A k \in 1..Len(WIKIDATA_RDF_PREFIXES[i].uri) :
             WIKIDATA_RDF_PREFIXES[i].uri[k] = t[k]}

\* C19 -- Longest-prefix abbreviation: for a delimited URI with a registered
\* ontology URI as prefix the function returns shortcode ":" remainder,
\* where shortcode is that of the longest registered URI that is a prefix of
\* the undelimited URI and remainder is the undelimited URI after that
\* prefix; an input that is not delimited is returned unchanged.
C19_LongestPrefix ==
    pPc = "returned" =>
        IF IsDelimited(pUri)
        THEN LET t == Undelimited(pUri)
                 found == RegisteredPrefixesOf(t)
             IN  found # {} =>
                    \E i \in found :
                        /\ \A j \in found :
                             Len(WIKIDATA_RDF_PREFIXES[j].uri)
                                <= Len(WIKIDATA_RDF_PREFIXES[i].uri)
                        /\ pResult
                             = WIKIDATA_RDF_PREFIXES[i].prefix \o <<":">>
                                 \o SubSeq(t, Len(WIKIDATA_RDF_PREFIXES[i].uri) + 1,
                                           Len(t))
        ELSE pResult = pUri

\* <http://www.wikidata.org/prop/direct/Q1>, of which the registered URIs
\* of p: and wdt: are prefixes, was rewritten to wdt:Q1
C19_Witness ==
    /\ pPc = "returned"
    /\ IsDelimited(pUri)
    /\ Cardinality(RegisteredPrefixesOf(Undelimited(pUri))) = 2
    /\ pResult = <<"w", "d", "t", ":", "Q", "1">>

\* the input is delimited and no registered ontology URI is a prefix of it
HasNoRegisteredPrefix(uri) ==
    IsDelimited(uri) /\ RegisteredPrefixesOf(Undelimited(uri)) = {}

\* C20 as stated -- Prefix with no match: for a delimited URI that no
\* registered ontology URI is a prefix of, the function returns the text
\* between the delimiters.
C20_NoMatchUndelimited ==
    pPc = "returned" /\ HasNoRegisteredPrefix(pUri)
        => pResult = Undelimited(pUri)

\* C20 -- Prefix with no match: for a delimited URI that no registered
\* ontology URI is a prefix of, the function returns its argument
\* unchanged, the angle brackets included.
C20_NoMatchUnchanged ==
    pPc = "returned" /\ HasNoRegisteredPrefix(pUri)
        => /\ pResult = pUri
           /\ IsDelimited(pResult)
           /\ pResult # Undelimited(pUri)

\* <http://example.org/Q1> was returned as it came
C20_Witness ==
    /\ pPc = "returned"
    /\ HasNoRegisteredPrefix(pUri)
    /\ Undelimited(pUri) = <<"h", "t", "t", "p", ":", "/", "/", "e", "x", "a",
                             "m", "p", "l", "e", ".", "o", "r", "g", "/",
                             "Q", "1">>
    /\ pResult = pUri

-----------------------------------------------------------------------------
(* Claims about the archive against the yielded stream (Spec).             *)

\* the entities of the revisions in revisions, each once, in the order of
\* their first revision
RECURSIVE EntityOrder(_)
EntityOrder(revisions) ==
    IF revisions = <<>> THEN <<>>
    ELSE LET front == EntityOrder(SubSeq(revisions, 1, Len(revisions) - 1))
             e     == revisions[Len(revisions)].page_id
         IN  IF \E i \in 1..Len(front) : front[i] = e
             THEN front
             ELSE Append(front, e)

\* the lines of the members of the entities in order, one member after the
\* other
RECURSIVE MemberLines(_, _)
MemberLines(file, order) ==
    IF order = <<>> THEN <<>>
    ELSE ReadMember(file, EntityFileNameFromPageId(Head(order))).lines
            \o MemberLines(file, Tail(order))

\* the lines build wrote for the revisions in revisions
SerializedLines(revisions) ==
    [i \in 1..Len(revisions) |-> Serialize(revisions[i])]

\* the archive the build of p writes to, or has committed
ArchiveOf(p) == IF pc[p] = "done" THEN final[p] ELSE tmp[p]

\* C21 -- Archive content equals the yielded stream: while and after
\* build(partition) runs over revisions grouped by entity, every yielded
\* revision has its serialized line in the member named by its entity's
\* page id, different entities have different members (one each), and the
\* yielded sequence is the concatenation of the members' lines in the
\* order the entities were iterated; the committed archive has no other
\* member.
C21_ArchiveEqualsYielded ==
    \A p \in Partitions :
        pc[p] \in {"running", "done"} /\ InputGrouped(p) =>
            LET file  == ArchiveOf(p)
                order == EntityOrder(yielded[p])
            IN  /\ \A i \in 1..Len(yielded[p]) :
                      LET read == ReadMember(file,
                                    EntityFileNameFromPageId(yielded[p][i].page_id))
                      IN  /\ read.ok
                          /\ \E k \in 1..Len(read.lines) :
                                read.lines[k] = Serialize(yielded[p][i])
                /\ \A i, j \in 1..Len(order) :
                      i # j => EntityFileNameFromPageId(order[i])
                                  # EntityFileNameFromPageId(order[j])
                /\ MemberLines(file, order) = SerializedLines(yielded[p])
                /\ pc[p] = "done" =>
                      IterFileNames(file)
                        = {EntityFileNameFromPageId(order[i]) : i \in 1..Len(order)}

\* a committed build that yielded two revisions of one entity and then one
\* of another: the archive has the two members, the first with two lines
C21_Witness ==
    \E p \in Partitions :
        /\ pc[p] = "done" /\ InputGrouped(p)
        /\ Len(yielded[p]) = 3
        /\ yielded[p][1].page_id = yielded[p][2].page_id
        /\ yielded[p][3].page_id # yielded[p][1].page_id
        /\ Cardinality(IterFileNames(final[p])) = 2
        /\ MemberLines(final[p], EntityOrder(yielded[p]))
              = SerializedLines(yielded[p])

-----------------------------------------------------------------------------
(* Claims about the opaque identifiers of blank nodes (SpecDiff).          *)

\* the longest run that is compared against all its renamed runs
MaxRenamedRevs == 2

\* the opaque local identifiers the converter may choose
BlankIds == {TN1.object_, TN2.object_}

\* the ways a run may choose them instead
BlankRenamings == [BlankIds -> BlankIds]

\* triple t with its opaque object identifier chosen by f
RenamedTriple(f, t) ==
    IF IsBlankObject(t.object_) THEN Triple(t.subject, t.predicate, f[t.object_])
    ELSE t

\* the same revisions converted in another run: revision i has its opaque
\* identifiers chosen by fs[i]
RenamedRevisions(fs) ==
    [i \in 1..Len(dRevisions) |->
        [dRevisions[i] EXCEPT !.conv.triples =
            [k \in 1..Len(@) |-> RenamedTriple(fs[i], @[k])]]]

\* two diff lists of the same length with equivalent triples at each place
PairwiseEquivalent(xs, ys) ==
    /\ Len(xs) = Len(ys)
    /\ \A k \in 1..Len(xs) : TripleEq(xs[k], ys[k])

\* some triple of seq is equivalent to t
HasEquivalent(seq, t) == \E k \in 1..Len(seq) : TripleEq(seq[k], t)

\* C22 -- Independence from opaque identifiers: a second run of the diff
\* generator over the same revisions (up to MaxRenamedRevs of them), whose
\* converted triples differ from the first run's only in the opaque
\* identifiers of object values, chosen anew in every revision, yields as
\* many revisions, with additions and deletions equivalent to the first
\* run's element by element; and a triple with an opaque object that is in
\* two consecutive converted revisions up to that identifier is in neither
\* list of the later one.
C22_OpaqueIdIndependence ==
    /\ Len(dRevisions) <= MaxRenamedRevs =>
       \A fs \in [1..Len(dRevisions) -> BlankRenamings] :
          LET other == IterWikidatedRevisions(RenamedRevisions(fs)).emitted
          IN  /\ Len(other) = Len(dOut)
              /\ \A i \in 1..Len(dOut) :
                    /\ other[i].revision_id = dOut[i].revision_id
                    /\ PairwiseEquivalent(other[i].triple_additions,
                                          dOut[i].triple_additions)
                    /\ PairwiseEquivalent(other[i].triple_deletions,
                                          dOut[i].triple_deletions)
    /\ \A k \in 2..Len(dOut) :
          LET before == dRevisions[ConvertedPosition(k - 1)].conv.triples
              after  == dRevisions[ConvertedPosition(k)].conv.triples
          IN  \A i \in 1..Len(before) :
                  IsBlankObject(before[i].object_) /\ HasEquivalent(after, before[i])
                    => /\ ~HasEquivalent(dOut[k].triple_additions, before[i])
                       /\ ~HasEquivalent(dOut[k].triple_deletions, before[i])

\* a revision with the opaque triple TN1 followed by one that has TN2 in its
\* place and TB in addition: the second diff adds TB only and deletes
\* nothing
C22_Witness ==
    /\ Len(dRevisions) = 2 /\ Len(dOut) = 2
    /\ dRevisions[1].conv.ok /\ dRevisions[2].conv.ok
    /\ dRevisions[1].conv.triples = <<TN1>>
    /\ dRevisions[2].conv.triples = <<TN2, TB>>
    /\ dOut[2].triple_additions = <<TB>>
    /\ dOut[2].triple_deletions = <<>>

-----------------------------------------------------------------------------
(* Claims about the stages of WikidatedDataset.build (Spec).               *)

\* C23 -- Stage ordering of the top-level build: when the merge of the
\* entity streams has been started, the build of every partition has
\* finished before, committed or skipped, with its last progress call made;
\* no partition is pending, running or has raised.
C23_StageOrdering ==
    mergeStatus # "not_called" =>
        \A p \in Partitions :
            /\ pc[p] \in {"done", "skipped"}
            /\ final[p].exists
            /\ ~tmp[p].exists \/ pc[p] = "skipped"
            /\ progress[p] # <<>>
            /\ progress[p][Len(progress[p])] = ProgressLast(p)

\* the merge was started after one partition was committed by this call
\* and the other was skipped
C23_Witness ==
    /\ mergeStatus = "NotImplementedError"
    /\ \E p, q \in Partitions :
        /\ pc[p] = "done" /\ yielded[p] # <<>>
        /\ pc[q] = "skipped"

-----------------------------------------------------------------------------
(* Claims about conversion errors in the build of a partition (Spec).      *)

\* the revision ids of the revisions in revisions, in their order
RevisionIds(revisions) ==
    [i \in 1..Len(revisions) |-> revisions[i].revision_id]

\* the revisions of partition p whose conversion succeeds, in their order
ConvertedInput(p) ==
    LET Ok(r) == r.conv.ok
    IN  SelectSeq(input[p], Ok)

\* some revision of partition p raises a conversion error
SomeConversionFails(p) == \E i \in 1..Len(input[p]) : ~input[p][i].conv.ok

\* C24 -- Conversion errors are never fatal to a partition: when the build
\* of a partition in which conversions raised conversion errors has
\* consumed every entity group and nothing else went wrong, its next step,
\* the rename, commits the archive, a diff was yielded for every revision
\* that converted and, for grouped input, those diffs are in the archive.
C24_ConversionErrorsNotFatal ==
    [][\A p \in Partitions :
          /\ pc[p] = "running"
          /\ AllConsumed(p)
          /\ SomeConversionFails(p)
          /\ pc'[p] \in {"done", "raised"}
          => /\ pc'[p] = "done"
             /\ final'[p].exists
             /\ RevisionIds(yielded[p]) = RevisionIds(ConvertedInput(p))
             /\ InputGrouped(p) =>
                  MemberLines(final'[p], EntityOrder(yielded[p]))
                      = SerializedLines(yielded[p])]_vars

-----------------------------------------------------------------------------
(* Claims about the two diff lists of one revision (SpecDiff).             *)

\* C25 -- Disjoint diff lists: in every revision the diff generator has
\* yielded, no triple of triple_additions is equivalent to a triple of
\* triple_deletions.
C25_DisjointDiffLists ==
    \A i \in 1..Len(dOut) :
        \A a \in SeqToSet(dOut[i].triple_additions) :
            \A d \in SeqToSet(dOut[i].triple_deletions) :
                /\ ~TripleEq(a, d)
                /\ ~TripleEq(d, a)

\* a revision that adds and deletes at once while a triple with an opaque
\* object stays under another identifier: {TA, TN1} followed by {TN2, TB}
\* adds TB and deletes TA
C25_Witness ==
    \E i \in 2..Len(dOut) :
        /\ dOut[i].triple_additions = <<TB>>
        /\ dOut[i].triple_deletions = <<TA>>
        /\ dRevisions[ConvertedPosition(i - 1)].conv.triples = <<TN1, TA>>
        /\ dRevisions[ConvertedPosition(i)].conv.triples = <<TN2, TB>>

-----------------------------------------------------------------------------
(* Claims about the diff state across entities (Spec).                     *)

\* the positions in the dump of p of the revisions of the group that
\* revision i is in
GroupOf(p, i) ==
    {j \in 1..Len(input[p]) :
        /\ input[p][j].page_id = input[p][i].page_id
        /\ \A m \in (IF j < i THEN j ELSE i)..(IF j < i THEN i ELSE j) :
              input[p][m].page_id = input[p][i].page_id}

\* revision i of p is the first of its group that converts
FirstConvertedOfGroup(p, i) ==
    /\ input[p][i].conv.ok
    /\ \A j \in GroupOf(p, i) : j < i => ~input[p][j].conv.ok

\* the revision yielded for revision i of p, if any (revision ids are
\* unique in a dump)
YieldedOf(p, i) ==
    {k \in 1..Len(yielded[p]) :
        yielded[p][k].revision_id = input[p][i].revision_id}

\* C26 -- Diff state does not leak across entities: the revision yielded
\* for the first revision of an entity group that converts deletes nothing
\* and adds the full triple set of that revision, whatever the entity
\* before ended with.
C26_NoLeakAcrossEntities ==
    \A p \in Partitions :
        pc[p] \in {"running", "done"} =>
            \A i \in 1..pos[p] :
                FirstConvertedOfGroup(p, i) =>
                    /\ Cardinality(YieldedOf(p, i)) = 1
                    /\ \A k \in YieldedOf(p, i) :
                          /\ yielded[p][k].page_id = input[p][i].page_id
                          /\ yielded[p][k].triple_deletions = <<>>
                          /\ SeqToSet(yielded[p][k].triple_additions)
                               = PySet(input[p][i].conv.triples)
                          /\ Len(yielded[p][k].triple_additions)
                               = Cardinality(PySet(input[p][i].conv.triples))

\* an entity that ended with triples is followed by another entity: the
\* first revision yielded for the second deletes nothing and adds its
\* triples, among them one the first entity ended with
C26_Witness ==
    \E p \in Partitions :
        /\ pc[p] = "done"
        /\ Len(yielded[p]) >= 2
        /\ yielded[p][1].page_id # yielded[p][2].page_id
        /\ yielded[p][1].triple_additions # <<>>
        /\ yielded[p][2].triple_deletions = <<>>
        /\ \E t \in SeqToSet(yielded[p][1].triple_additions) :
              t \in SeqToSet(yielded[p][2].triple_additions)
        /\ \E t \in SeqToSet(yielded[p][1].triple_additions) :
              t \notin SeqToSet(yielded[p][2].triple_additions)

-----------------------------------------------------------------------------
(* Claims about the numbers of the progress calls (Spec).                  *)

\* every revision of partition p is of a page in the partition's range
InputInRange(p) ==
    \A i \in 1..Len(input[p]) : input[p][i].page_id \in RangePages(PageIdRange(p))

\* C27 -- Progress bounds: in every progress call made for a partition
\* whose revisions are all of pages in its range, items_done is between 0
\* and items_total, items_total is the length of the range, and items_done
\* equals items_total only in the last call of a build that came to its
\* end.
C27_ProgressBounds ==
    \A p \in Partitions :
        InputInRange(p) =>
            \A k \in 1..Len(progress[p]) :
                /\ 0 <= progress[p][k].items_done
                /\ progress[p][k].items_done <= progress[p][k].items_total
                /\ progress[p][k].items_total = RangeLen(PageIdRange(p))
                /\ progress[p][k].items_done = progress[p][k].items_total =>
                      /\ k = Len(progress[p])
                      /\ k >= 2
                      /\ pc[p] \in {"done", "skipped"}

\* a finished build whose call before the last was for the last page of
\* the range: items_done was items_total - 1 there
C27_Witness ==
    \E p \in Partitions :
        /\ pc[p] = "done" /\ InputInRange(p)
        /\ Len(progress[p]) >= 3
        /\ progress[p][1].items_done = 0
        /\ progress[p][Len(progress[p]) - 1].items_done
              = RangeLen(PageIdRange(p)) - 1
        /\ progress[p][Len(progress[p])].items_done = RangeLen(PageIdRange(p))

-----------------------------------------------------------------------------
(* Claims about __eq__ as a relation (SpecEq).                             *)

\* triples a set of the two compared triples is probed with: their
\* subjects and predicates with opaque objects, an ordinary one, and one
\* that only starts like an opaque one
EqProbes ==
    {Triple(t.subject, t.predicate, o) :
        t \in {eqA, eqB},
        o \in {<<"_", ":">>, <<"_", ":", "a">>, <<"a">>, <<"_">>}}

\* C28 -- Triple equality is an equivalence relation: for compared triples
\* a and b, a == a, (a == b) = (b == a), and a == b together with b == c
\* gives a == c for every triple c; and the sets built from a, b and from
\* b, a hold the same probes, are equal as sets, and leave equal
\* differences when a probe is taken away.
C28_EqIsEquivalence ==
    eqPc = "compared" =>
        /\ TripleEq(eqA, eqA) /\ TripleEq(eqB, eqB)
        /\ eqResult <=> TripleEq(eqB, eqA)
        /\ eqResult =>
              \A c \in EqTriples :
                  /\ TripleEq(eqB, c) => TripleEq(eqA, c)
                  /\ TripleEq(c, eqA) => TripleEq(c, eqB)
        /\ LET ab == PySet(<<eqA, eqB>>)
               ba == PySet(<<eqB, eqA>>)
           IN  /\ SetEquals(ab, ba)
               /\ Cardinality(ab) = IF eqResult THEN 1 ELSE 2
               /\ \A c \in EqProbes :
                     /\ SetContains(ab, c) <=> SetContains(ba, c)
                     /\ SetContains(ab, c) <=> (TripleEq(eqA, c) \/ TripleEq(eqB, c))
                     /\ SetEquals(SetDifference(ab, {c}), SetDifference(ba, {c}))
                     /\ SetEquals(SetDifference({c}, ab), SetDifference({c}, ba))

\* two triples with opaque objects under different identifiers were
\* compared equal: the two insertion orders keep different triples, the
\* sets are equal, and the ordinary triple of the same subject and
\* predicate is in neither
C28_Witness ==
    /\ eqPc = "compared"
    /\ eqA.object_ = <<"_", ":", "a">>
    /\ eqB.object_ = <<"_", ":">>
    /\ eqResult
    /\ PySet(<<eqA, eqB>>) = {eqA}
    /\ PySet(<<eqB, eqA>>) = {eqB}
    /\ SetEquals(PySet(<<eqA, eqB>>), PySet(<<eqB, eqA>>))
    /\ ~SetContains(PySet(<<eqA, eqB>>), Triple(eqA.subject, eqA.predicate, <<"a">>))
    /\ ~SetContains(PySet(<<eqB, eqA>>), Triple(eqA.subject, eqA.predicate, <<"a">>))

====
